---- MODULE Spec2Model ----
(***************************************************************************)
(* A model of the region-segmentation and distance-field engine of cue:    *)
(* boundary extraction and the two-pass distance transform (sdf.ts), the   *)
(* span flood fill (regionFiller.ts), the tile manager (tiledRenderer.ts), *)
(* the shader compositor's texture upload (shaderRenderer.ts) and the      *)
(* generation guard of the sketches.                                       *)
(***************************************************************************)
EXTENDS Integers, Sequences, FiniteSets, TLC

VARIABLES
    width,          \* image width of the operation under study
    height,         \* image height
    linePixels,     \* RGBA byte buffer of the rasterised strokes
    threshold,      \* brightness threshold handed to extractBoundaries
    boundaries,     \* the boundary mask (Uint8Array)
    g,              \* phase-1 array of calculateDistanceField
    dt,             \* phase-2 array: the distance field data
    rowY,           \* processRows: the row y of the outer loop
    colU,           \* processRows: the column u of the running inner loop
    envQ,           \* processRows: q, the index of the last parabola
    envS,           \* processRows: the working array s
    envT,           \* processRows: the working array t
    scanK,          \* processRows: the pointer k of the scan
    sdfPc,          \* position inside extractBoundaries / calculateDistanceField
    canvasPixels,   \* fillRegions: the canvas pixel buffer, one colour per pixel
    visited,        \* fillRegions: the visited bitmap
    stack,          \* fillRegionWithSDF: the work stack of spans
    scanIdx,        \* fillRegions: index y * width + x of the outer scan
    regionId,       \* fillRegions: the region counter
    writeCount,     \* history: number of stores to each canvas pixel
    fillPc,         \* position inside fillRegions
    maxDistance,    \* normalizeDistanceField: the value of getMaxDistance
    normalized,     \* normalizeDistanceField: the data of the field returned
    lookup,         \* the last call of getDistance and getDistanceSquared
    fieldPc,        \* which reader of the distance field has run
    baseColor,      \* fillRegionWithSDF: the base colour of the region
    shading,        \* fillRegionWithSDF: the shading configuration
    pixelDistSq,    \* fillRegionWithSDF: the squared distance of the pixel
    color,          \* fillRegionWithSDF: the colour written for the pixel
    shadePc,        \* position inside the shading of one pixel
    defaultPresetIndex, \* UI: the preset a new picker highlights
    selectedResolution, \* UI: the resolution of the preset last chosen
    customWidth,    \* UI: the custom width
    customHeight,   \* UI: the custom height
    isCustom,       \* UI: custom mode
    selectedPresets, \* UI: the preset buttons carrying the class selected
    checkboxChecked, \* UI: the custom checkbox carries the class checked
    widthValue,     \* UI: the text of the width input
    heightValue,    \* UI: the text of the height input
    generated,      \* UI: the arguments of the last onGenerate call
    modalVisible,   \* UI: the picker is shown
    lastPreset,     \* history: index of the preset clicked last, -1 if none was
    fullWidth,      \* tiled export: width of the full resolution
    fullHeight,     \* tiled export: height of the full resolution
    maxTileSize,    \* tiled export: the tile size handed to calculateTileGrid
    regionData,     \* tiled export: the full-resolution RegionData (ids, colors)
    shapes,         \* tiled export: the shape set (lines, circles)
    shader,         \* ShaderRenderer.shader: "null" or "compiled"
    regionTex,      \* ShaderRenderer.regionTex: null or a texture
    colorsTex,      \* ShaderRenderer.colorsTex: null or the 256x1 texture
    uniforms,       \* the uniforms set by the last ShaderRenderer.render
    singleCanvas,   \* the image of the render without tiling
    tiles,          \* the list returned by calculateTileGrid
    rendered,       \* the tile canvases rendered so far, with their TileInfo
    outputCanvas,   \* the canvas returned by compositeTiles
    drawOrder,      \* history: the order in which compositeTiles was given the tiles
    tileData,       \* history: the RegionData extractTileRegionData returned, per tile
    texLog,         \* history: textures created and removed by the ShaderRenderer
    thrown,         \* the error the last call of render threw, if it threw
    tilePc,         \* position inside the tiled export
    isGenerating,   \* sketch: the guard of generateArt
    genPc,          \* sketch: position inside the running generateArt
    lineBuffer,     \* sketch: what the line buffer holds
    canvas,         \* sketch: what the canvas holds
    requested,      \* history: number of calls of generateArt
    started,        \* history: number of calls that passed the guard
    finished,       \* history: number of calls that reached their last line
    glContext,      \* needsTiledRendering: what getContext returns
    maxTextureSize, \* needsTiledRendering: what getParameter returns
    probeWidth,     \* needsTiledRendering: argument width
    probeHeight,    \* needsTiledRendering: argument height
    needsTiling     \* needsTiledRendering: the value returned

rowVars == <<rowY, colU, envQ, envS, envT, scanK>>

sdfVars == <<width, height, linePixels, threshold, boundaries, g, dt, rowVars, sdfPc>>

fillVars == <<canvasPixels, visited, stack, scanIdx, regionId, writeCount, fillPc>>

rendererVars == <<shader, regionTex, colorsTex, uniforms>>

tileVars == <<fullWidth, fullHeight, maxTileSize, regionData, shapes, rendererVars,
              singleCanvas, tiles, rendered, outputCanvas, drawOrder, tileData, texLog,
              thrown, tilePc>>

fieldVars == <<maxDistance, normalized, lookup, fieldPc>>

shadeVars == <<baseColor, shading, pixelDistSq, color, shadePc>>

uiVars == <<defaultPresetIndex, selectedResolution, customWidth, customHeight, isCustom,
            selectedPresets, checkboxChecked, widthValue, heightValue, generated,
            modalVisible, lastPreset>>

genVars == <<isGenerating, genPc, lineBuffer, canvas, requested, started, finished>>

probeVars == <<glContext, maxTextureSize, probeWidth, probeHeight, needsTiling>>

\* the state outside fillRegions
appVars == <<fieldVars, shadeVars, uiVars, tileVars, genVars, probeVars>>

vars == <<sdfVars, fillVars, appVars>>

\* a texture field of ShaderRenderer that is still null
NoTexture == [live |-> FALSE]

\* no texture was created yet
NoTextures == [regionCreated |-> 0, regionRemoved |-> 0, colorsCreated |-> 0]

\* render has not thrown
NoError == [thrown |-> FALSE]

\* no tiled export is under way
TilesIdle ==
    /\ fullWidth = 0
    /\ fullHeight = 0
    /\ maxTileSize = 0
    /\ regionData = "none"
    /\ shapes = "none"
    /\ shader = "null"
    /\ regionTex = NoTexture
    /\ colorsTex = NoTexture
    /\ uniforms = "unset"
    /\ singleCanvas = "none"
    /\ tiles = <<>>
    /\ rendered = <<>>
    /\ outputCanvas = "none"
    /\ drawOrder = <<>>
    /\ tileData = <<>>
    /\ texLog = NoTextures
    /\ thrown = NoError
    /\ tilePc = "idle"

\* no sketch is running
GuardIdle ==
    /\ isGenerating = FALSE
    /\ genPc = "off"
    /\ lineBuffer = "none"
    /\ canvas = "none"
    /\ requested = 0
    /\ started = 0
    /\ finished = 0

\* getMaxDistance has not been called
NoDistance == [taken |-> FALSE]

\* no coordinate of a distance field has been read
NoLookup == [fn |-> "none"]

\* no reader of a distance field has run
FieldIdle ==
    /\ maxDistance = NoDistance
    /\ normalized = <<>>
    /\ lookup = NoLookup
    /\ fieldPc = "idle"

\* no pixel is being shaded
NoColor == [written |-> FALSE]

ShadeIdle ==
    /\ baseColor = NoColor
    /\ shading = NoColor
    /\ pixelDistSq = NoColor
    /\ color = NoColor
    /\ shadePc = "idle"

\* onGenerate has not been called
NoCall == [called |-> FALSE]

\* there is no resolution picker
UiIdle ==
    /\ defaultPresetIndex = 0
    /\ selectedResolution = NoCall
    /\ customWidth = 0
    /\ customHeight = 0
    /\ isCustom = FALSE
    /\ selectedPresets = {}
    /\ checkboxChecked = FALSE
    /\ widthValue = <<>>
    /\ heightValue = <<>>
    /\ generated = NoCall
    /\ modalVisible = FALSE
    /\ lastPreset = -1

\* needsTiledRendering is not being called
ProbeIdle ==
    /\ glContext = "none"
    /\ maxTextureSize = "none"
    /\ probeWidth = 0
    /\ probeHeight = 0
    /\ needsTiling = "none"

----------------------------------------------------------------------------
(* Bounds of the model.                                                    *)

\* largest number of pixels of an image of the distance-transform model
MaxCells == 9

\* largest number of pixels of an image of the boundary-extraction models
MaxExtractCells == 4

\* the threshold fillRegions passes to extractBoundaries
LINE_THRESHOLD == 50

\* the default of extractBoundaries' threshold parameter
DEFAULT_THRESHOLD == 50

----------------------------------------------------------------------------
(* Numbers.  The distance transform mixes three magnitudes: pixel          *)
(* distances, INF = 1e10 and INF*INF = 1e20.  A number is n * INF^c / d.    *)
(* Sums of different magnitudes keep only the larger one: that is what the *)
(* Float32 stores (1e10 + k = 1e10 for k < 512) and the double arithmetic  *)
(* of computeIntersection (1e20 + k = 1e20 for k < 8192) do for the sizes  *)
(* modelled here.                                                          *)

Fin(n) == [c |-> 0, n |-> n, d |-> 1]

INF == [c |-> 1, n |-> 1, d |-> 1]

Sgn(n) == IF n > 0 THEN 1 ELSE IF n < 0 THEN -1 ELSE 0

Abs(n) == IF n < 0 THEN -n ELSE n

Neg(a) == [a EXCEPT !.n = -a.n]

\* a + b for numbers with denominator 1
Add(a, b) ==
    IF a.n = 0 THEN b
    ELSE IF b.n = 0 THEN a
    ELSE IF a.c > b.c THEN a
    ELSE IF b.c > a.c THEN b
    ELSE IF a.n + b.n = 0 THEN Fin(0)
    ELSE [c |-> a.c, n |-> a.n + b.n, d |-> 1]

\* a * b for numbers with denominator 1
Mul(a, b) ==
    IF a.n = 0 \/ b.n = 0 THEN Fin(0)
    ELSE [c |-> a.c + b.c, n |-> a.n * b.n, d |-> 1]

\* a / k for an integer k > 0
Div(a, k) == IF a.n = 0 THEN Fin(0) ELSE [a EXCEPT !.d = a.d * k]

\* a < b
Less(a, b) ==
    LET sa == Sgn(a.n)
        sb == Sgn(b.n)
    IN  IF sa # sb THEN sa < sb
        ELSE IF sa = 0 THEN FALSE
        ELSE IF a.c # b.c THEN (IF sa > 0 THEN a.c < b.c ELSE a.c > b.c)
        ELSE a.n * b.d < b.n * a.d

RECURSIVE FloorLog2(_, _)
\* e with 2^e <= n/d < 2^(e+1), for n, d > 0
FloorLog2(n, d) ==
    IF n >= 2 * d THEN 1 + FloorLog2(n, 2 * d)
    ELSE IF n < d THEN FloorLog2(2 * n, d) - 1
    ELSE 0

RECURSIVE Pow2Mod(_, _)
\* 2^k mod m
Pow2Mod(k, m) == IF k = 0 THEN 1 % m ELSE (2 * Pow2Mod(k - 1, m)) % m

\* Direction in which the Float32 store rounds n/d (n, d > 0): -1 below the
\* exact value, 0 exact, 1 above (round to nearest, ties to even, 24-bit
\* significand).
RoundDirF32(n, d) ==
    LET shift == 23 - FloorLog2(n, d)
        r     == ((n % d) * Pow2Mod(shift, d)) % d
        r2    == ((n % (2 * d)) * Pow2Mod(shift, 2 * d)) % (2 * d)
    IN  IF r = 0 THEN 0
        ELSE IF 2 * r < d THEN -1
        ELSE IF 2 * r > d THEN 1
        ELSE IF r2 >= d THEN 1 ELSE -1

\* x <= (Float32) tq, where tq is the exact value that was stored in the
\* Float32Array t.  Distinct values of the sizes modelled differ by far more
\* than one Float32 ulp, so only the rounding of an exact tie matters.
LeqStored(x, tq) ==
    IF Less(x, tq) THEN TRUE
    ELSE IF Less(tq, x) THEN FALSE
    ELSE IF tq.c # 0 \/ tq.n = 0 THEN TRUE
    ELSE IF tq.n > 0 THEN RoundDirF32(tq.n, tq.d) >= 0
    ELSE RoundDirF32(-tq.n, tq.d) <= 0

\* (Float32) tq < u for an integer u
StoredLess(tq, u) == Less(tq, Fin(u))

----------------------------------------------------------------------------
(* Typed arrays.                                                           *)

Indices(n) == 0 .. (n - 1)

Zeros(n) == [i \in Indices(n) |-> 0]

ZeroNums(n) == [i \in Indices(n) |-> Fin(0)]

\* arr[i] as JavaScript reads it: an index outside the array is undefined,
\* which is falsy
Truthy(arr, i) == IF i \in DOMAIN arr THEN arr[i] # 0 ELSE FALSE

----------------------------------------------------------------------------
(* sdf.ts: the distance transform.                                         *)

\* processColumn whose forward pass starts every column at INF
processColumn_topIgnored(b, w, h, x) ==
    LET fwd[y \in Indices(h)] ==
            IF y = 0 THEN INF
            ELSE IF Truthy(b, y * w + x) THEN Fin(0)
            ELSE Add(fwd[y - 1], Fin(1))
        bwd[y \in Indices(h)] ==
            IF y = h - 1 THEN fwd[y]
            ELSE IF Less(bwd[y + 1], fwd[y]) THEN Add(bwd[y + 1], Fin(1))
            ELSE fwd[y]
    IN  [y \in Indices(h) |-> Mul(bwd[y], bwd[y])]

\* processColumn without the backward pass
processColumn_forwardOnly(b, w, h, x) ==
    LET fwd[y \in Indices(h)] ==
            IF y = 0 THEN (IF Truthy(b, x) THEN Fin(0) ELSE INF)
            ELSE IF Truthy(b, y * w + x) THEN Fin(0)
            ELSE Add(fwd[y - 1], Fin(1))
    IN  [y \in Indices(h) |-> Mul(fwd[y], fwd[y])]

\* lines 60-88: one column of phase 1
processColumn(b, w, h, x) ==
    LET fwd[y \in Indices(h)] ==
            IF y = 0 THEN (IF Truthy(b, x) THEN Fin(0) ELSE INF)
            ELSE IF Truthy(b, y * w + x) THEN Fin(0)
            ELSE Add(fwd[y - 1], Fin(1))
        bwd[y \in Indices(h)] ==
            IF y = h - 1 THEN fwd[y]
            ELSE IF Less(bwd[y + 1], fwd[y]) THEN Add(bwd[y + 1], Fin(1))
            ELSE fwd[y]
    IN  [y \in Indices(h) |-> Mul(bwd[y], bwd[y])]

processColumns(b, g0, w, h) ==
    LET cols == [x \in Indices(w) |-> processColumn(b, w, h, x)]
    IN  [idx \in DOMAIN g0 |-> cols[idx % w][idx \div w]]

\* computeIntersection without the apex heights
computeIntersection_noApex(p1, v1, p2, v2) ==
    Div(Fin(p2 * p2 - p1 * p1), 2 * (p2 - p1))

\* lines 169-171
computeIntersection(p1, v1, p2, v2) ==
    Div(Add(Add(Fin(p2 * p2 - p1 * p1), v2), Neg(v1)), 2 * (p2 - p1))

RECURSIVE popDominated(_, _, _, _, _, _)
\* lines 122-134: the index q left after the dominated parabolas are removed
popDominated(q, s, t, grow, rowStart, u) ==
    LET intersection ==
            computeIntersection(s[q], grow[rowStart + s[q]], u, grow[rowStart + u])
    IN  IF q > 0 /\ LeqStored(intersection, t[q])
        THEN popDominated(q - 1, s, t, grow, rowStart, u)
        ELSE q

\* pushParabola that leaves t[q + 1] as it was
pushParabola_noSentinel(env, grow, rowStart, u) ==
    LET qp == popDominated(env.q, env.s, env.t, grow, rowStart, u)
        intersection ==
            computeIntersection(env.s[qp], grow[rowStart + env.s[qp]],
                                u, grow[rowStart + u])
        q1 == qp + 1
    IN  [q |-> q1,
         s |-> [env.s EXCEPT ![q1] = u],
         t |-> [env.t EXCEPT ![q1] = intersection]]

\* lines 117-141: one iteration of the envelope loop
pushParabola(env, grow, rowStart, u) ==
    LET qp == popDominated(env.q, env.s, env.t, grow, rowStart, u)
        intersection ==
            computeIntersection(env.s[qp], grow[rowStart + env.s[qp]],
                                u, grow[rowStart + u])
        q1 == qp + 1
    IN  [q |-> q1,
         s |-> [env.s EXCEPT ![q1] = u],
         t |-> [env.t EXCEPT ![q1] = intersection, ![q1 + 1] = INF]]

RECURSIVE advance(_, _, _)
\* lines 147-149
advance(k, t, u) ==
    IF (k + 1) \in DOMAIN t /\ StoredLess(t[k + 1], u)
    THEN advance(k + 1, t, u)
    ELSE k

\* a store into a typed array; a store past the end is ignored
Store(arr, i, v) == [j \in DOMAIN arr |-> IF j = i THEN v ELSE arr[j]]

----------------------------------------------------------------------------
(* regionFiller.ts: the span flood fill.                                   *)

\* DEFAULT_SHADING.edgeFalloff
EDGE_FALLOFF == 80

\* the alpha applyEdgeShading writes
FILL_ALPHA == 200

\* the canvas before fillRegions: generateArt clears it with background(255)
WhitePixel == [base |-> -1, edgeFactor |-> Fin(1), a |-> 255]

\* lines 143-156 and 282-292: the colour stored for a pixel of region id at
\* squared distance distSq; the base colour is the one generated for id
\* (hue = id * golden ratio mod 1), modulated by the edge factor
shadedPixel(id, distSq) ==
    LET falloffSq == EDGE_FALLOFF * EDGE_FALLOFF
    IN  [base |-> id,
         edgeFactor |-> IF Less(distSq, Fin(falloffSq)) THEN Div(distSq, falloffSq)
                        ELSE Fin(1),
         a |-> FILL_ALPHA]

\* scanLeft that stays where it starts
scanLeft_stay(vis, rowStart, left) == left

RECURSIVE scanLeft(_, _, _)
\* lines 229-232
scanLeft(vis, rowStart, left) ==
    IF left > 0 /\ vis[rowStart + left - 1] = 0
    THEN scanLeft(vis, rowStart, left - 1)
    ELSE left

RECURSIVE scanRight(_, _, _, _)
\* lines 235-238
scanRight(vis, w, rowStart, right) ==
    IF right < w - 1 /\ vis[rowStart + right + 1] = 0
    THEN scanRight(vis, w, rowStart, right + 1)
    ELSE right

\* findSpan that does not widen the span beyond its starting pixel
findSpan_seedOnly(vis, w, startX, y) == <<startX, startX>>

\* lines 220-241
findSpan(vis, w, startX, y) ==
    <<scanLeft(vis, y * w, startX), scanRight(vis, w, y * w, startX)>>

RECURSIVE skipWhile(_, _, _, _, _)
\* lines 259-261 (flag = 1) and 269-271 (flag = 0)
skipWhile(vis, rowStart, x, xRight, flag) ==
    IF x <= xRight /\ (vis[rowStart + x] # 0) = (flag = 1)
    THEN skipWhile(vis, rowStart, x + 1, xRight, flag)
    ELSE x

\* addSpansForLine pushing the span as scanned, not extended by findSpan
RECURSIVE addSpansForLine_unextended(_, _, _, _, _, _)
addSpansForLine_unextended(vis, w, y, x, xRight, stk) ==
    LET spanLeft == skipWhile(vis, y * w, x, xRight, 1)
        spanEnd  == skipWhile(vis, y * w, spanLeft, xRight, 0)
    IN  IF x > xRight \/ spanLeft > xRight THEN stk
        ELSE addSpansForLine_unextended(vis, w, y, spanEnd, xRight,
                Append(stk, [y |-> y, xLeft |-> spanLeft, xRight |-> spanEnd - 1]))

RECURSIVE addSpansForLine(_, _, _, _, _, _)
\* lines 246-277, x running from xLeft
addSpansForLine(vis, w, y, x, xRight, stk) ==
    LET spanLeft == skipWhile(vis, y * w, x, xRight, 1)
        spanEnd  == skipWhile(vis, y * w, spanLeft, xRight, 0)
        ext      == findSpan(vis, w, spanLeft, y)
    IN  IF x > xRight \/ spanLeft > xRight THEN stk
        ELSE addSpansForLine(vis, w, y, spanEnd, xRight,
                Append(stk, [y |-> y, xLeft |-> ext[1], xRight |-> ext[2]]))

\* a fill loop that writes nothing
spanTargets_none(vis, w, span) == {}

\* the pixels of a span that the fill loop of lines 137-157 writes
spanTargets(vis, w, span) ==
    {span.y * w + x : x \in {c \in span.xLeft .. span.xRight : vis[span.y * w + c] = 0}}

\* visited left empty: no boundary pixel is marked
seedVisited_empty(b, n) == [i \in Indices(n) |-> 0]

\* lines 67-75: visited, with the boundary pixels marked
seedVisited(b, n) == [i \in Indices(n) |-> IF Truthy(b, i) THEN 1 ELSE 0]

FillIdle ==
    /\ canvasPixels = <<>>
    /\ visited = <<>>
    /\ stack = <<>>
    /\ scanIdx = 0
    /\ regionId = 0
    /\ writeCount = <<>>
    /\ fillPc = "idle"

\* lines 63-77: load the canvas, allocate visited, seed it with the boundary
\* pixels, start the scan
SeedVisited ==
    /\ fillPc = "idle"
    /\ sdfPc = "done"
    /\ canvasPixels' = [i \in Indices(width * height) |-> WhitePixel]
    /\ visited' = seedVisited(boundaries, width * height)
    /\ writeCount' = Zeros(width * height)
    /\ regionId' = 0
    /\ scanIdx' = 0
    /\ stack' = <<>>
    /\ fillPc' = "scan"
    /\ UNCHANGED <<sdfVars, appVars>>

\* line 84: the scanned pixel is visited, continue
ScanSkip ==
    /\ fillPc = "scan"
    /\ scanIdx < width * height
    /\ visited[scanIdx] # 0
    /\ scanIdx' = scanIdx + 1
    /\ UNCHANGED <<sdfVars, appVars, canvasPixels, visited, stack, regionId, writeCount, fillPc>>

\* lines 86-88 and 123-127: a new region; push the span of its first pixel
ScanSeed ==
    /\ fillPc = "scan"
    /\ scanIdx < width * height
    /\ visited[scanIdx] = 0
    /\ LET span == findSpan(visited, width, scanIdx % width, scanIdx \div width)
       IN  stack' = <<[y |-> scanIdx \div width, xLeft |-> span[1], xRight |-> span[2]]>>
    /\ fillPc' = "fill"
    /\ UNCHANGED <<sdfVars, appVars, canvasPixels, visited, scanIdx, regionId, writeCount>>

\* lines 132-168: one iteration of the work-stack loop
PopSpan ==
    /\ fillPc = "fill"
    /\ stack # <<>>
    /\ LET span    == stack[Len(stack)]
           rest    == SubSeq(stack, 1, Len(stack) - 1)
           targets == spanTargets(visited, width, span)
           vis1    == [i \in DOMAIN visited |-> IF i \in targets THEN 1 ELSE visited[i]]
           above   == IF span.y > 0
                      THEN addSpansForLine(vis1, width, span.y - 1, span.xLeft, span.xRight, rest)
                      ELSE rest
           below   == IF span.y < height - 1
                      THEN addSpansForLine(vis1, width, span.y + 1, span.xLeft, span.xRight, above)
                      ELSE above
       IN  /\ visited' = vis1
           /\ canvasPixels' = [i \in DOMAIN canvasPixels |->
                                 IF i \in targets THEN shadedPixel(regionId, dt[i])
                                 ELSE canvasPixels[i]]
           /\ writeCount' = [i \in DOMAIN writeCount |->
                               IF i \in targets THEN writeCount[i] + 1 ELSE writeCount[i]]
           /\ stack' = below
    /\ UNCHANGED <<sdfVars, appVars, scanIdx, regionId, fillPc>>

\* lines 100-101: fillRegionWithSDF has returned; count the region, go on
RegionFilled ==
    /\ fillPc = "fill"
    /\ stack = <<>>
    /\ regionId' = regionId + 1
    /\ scanIdx' = scanIdx + 1
    /\ fillPc' = "scan"
    /\ UNCHANGED <<sdfVars, appVars, canvasPixels, visited, stack, writeCount>>

\* line 104: the scan is over
ScanEnd ==
    /\ fillPc = "scan"
    /\ scanIdx = width * height
    /\ fillPc' = "done"
    /\ UNCHANGED <<sdfVars, appVars, canvasPixels, visited, stack, scanIdx, regionId, writeCount>>

NextFill == SeedVisited \/ ScanSkip \/ ScanSeed \/ PopSpan \/ RegionFilled \/ ScanEnd

----------------------------------------------------------------------------
(* sdf.ts: extractBoundaries.                                              *)

BufLen(arr) == Cardinality(DOMAIN arr)

\* the brightness test with <= in place of <
isBoundaryPixel_inclusive(lp, i, th) ==
    LET pixelIndex == i * 4
    IN  IF {pixelIndex, pixelIndex + 1, pixelIndex + 2} \subseteq DOMAIN lp
        THEN ~Less(Fin(th),
                   Div(Fin(lp[pixelIndex] + lp[pixelIndex + 1] + lp[pixelIndex + 2]), 3))
        ELSE FALSE

\* lines 239-245: brightness < threshold; a channel read past the end of the
\* buffer is undefined, the sum is NaN and the comparison is false
isBoundaryPixel(lp, i, th) ==
    LET pixelIndex == i * 4
    IN  IF {pixelIndex, pixelIndex + 1, pixelIndex + 2} \subseteq DOMAIN lp
        THEN Less(Div(Fin(lp[pixelIndex] + lp[pixelIndex + 1] + lp[pixelIndex + 2]), 3),
                  Fin(th))
        ELSE FALSE

\* lines 229-251
extractBoundaries(lp, w, h, th) ==
    [i \in Indices(w * h) |-> IF isBoundaryPixel(lp, i, th) THEN 1 ELSE 0]

----------------------------------------------------------------------------
(* Boundary extraction and the distance transform as a state machine, in   *)
(* the order fillRegions runs them (regionFiller.ts lines 60-61):          *)
(* extractBoundaries, then calculateDistanceField, which allocates g, runs *)
(* phase 1, allocates dt and runs phase 2.                                 *)

\* processRows has not been entered
RowsIdle ==
    /\ rowY = 0
    /\ colU = 0
    /\ envQ = 0
    /\ envS = <<>>
    /\ envT = <<>>
    /\ scanK = 0

\* neither extractBoundaries nor calculateDistanceField is being called
SdfIdle ==
    /\ width = 0
    /\ height = 0
    /\ linePixels = <<>>
    /\ threshold = 0
    /\ boundaries = <<>>
    /\ g = <<>>
    /\ dt = <<>>
    /\ RowsIdle
    /\ sdfPc = "off"

Masks(w, h) == [Indices(w * h) -> {0, 1}]

\* the rasteriser's buffer for a mask: black strokes on white, opaque
Rasterised(m) ==
    [i \in Indices(4 * BufLen(m)) |->
        IF i % 4 = 3 THEN 255 ELSE IF m[i \div 4] = 1 THEN 0 ELSE 255]

InitSDF ==
    /\ FillIdle
    /\ FieldIdle
    /\ ShadeIdle
    /\ UiIdle
    /\ TilesIdle
    /\ GuardIdle
    /\ ProbeIdle
    /\ width \in 1 .. MaxCells
    /\ height \in 1 .. MaxCells
    /\ width * height <= MaxCells
    /\ linePixels \in {Rasterised(m) : m \in Masks(width, height)}
    /\ threshold = LINE_THRESHOLD
    /\ boundaries = <<>>
    /\ g = <<>>
    /\ dt = <<>>
    /\ RowsIdle
    /\ sdfPc = "extract"

ExtractBoundaries ==
    /\ sdfPc = "extract"
    /\ boundaries' = extractBoundaries(linePixels, width, height, threshold)
    /\ sdfPc' = "columns"
    /\ UNCHANGED <<width, height, linePixels, threshold, g, dt, rowVars>>
    /\ UNCHANGED <<fillVars, appVars>>

\* sdf.ts lines 37-45 and 105-108: allocate g, run phase 1, allocate dt and
\* the working arrays of phase 2, enter the row loop
ProcessColumns ==
    /\ sdfPc = "columns"
    /\ g' = processColumns(boundaries, ZeroNums(width * height), width, height)
    /\ dt' = ZeroNums(width * height)
    /\ envS' = Zeros(width)
    /\ envT' = ZeroNums(width + 1)
    /\ rowY' = 0
    /\ sdfPc' = IF height > 0 THEN "row" ELSE "done"
    /\ UNCHANGED <<width, height, linePixels, threshold, boundaries, colU, envQ, scanK>>
    /\ UNCHANGED <<fillVars, appVars>>

\* sdf.ts lines 109-117: start the envelope of row y
BeginRow ==
    /\ sdfPc = "row"
    /\ envQ' = 0
    /\ envS' = Store(envS, 0, 0)
    /\ envT' = Store(Store(envT, 0, Neg(INF)), 1, INF)
    /\ colU' = 1
    /\ sdfPc' = "envelope"
    /\ UNCHANGED <<width, height, linePixels, threshold, boundaries, g, dt, rowY, scanK>>
    /\ UNCHANGED <<fillVars, appVars>>

\* sdf.ts lines 117-141: one iteration of the envelope loop
EnvelopeStep ==
    /\ sdfPc = "envelope"
    /\ colU < width
    /\ LET env == pushParabola([q |-> envQ, s |-> envS, t |-> envT], g, rowY * width, colU)
       IN  /\ envQ' = env.q
           /\ envS' = env.s
           /\ envT' = env.t
    /\ colU' = colU + 1
    /\ UNCHANGED <<width, height, linePixels, threshold, boundaries, g, dt, rowY, scanK, sdfPc>>
    /\ UNCHANGED <<fillVars, appVars>>

\* sdf.ts lines 117 and 144-145: the envelope is complete, start the scan
BeginScan ==
    /\ sdfPc = "envelope"
    /\ colU >= width
    /\ scanK' = 0
    /\ colU' = 0
    /\ sdfPc' = "scan"
    /\ UNCHANGED <<width, height, linePixels, threshold, boundaries, g, dt, rowY, envQ, envS, envT>>
    /\ UNCHANGED <<fillVars, appVars>>

\* sdf.ts lines 145-154: one iteration of the scan loop
ScanStep ==
    /\ sdfPc = "scan"
    /\ colU < width
    /\ LET k  == advance(scanK, envT, colU)
           dx == colU - envS[k]
       IN  /\ scanK' = k
           /\ dt' = Store(dt, rowY * width + colU,
                          Add(Fin(dx * dx), g[rowY * width + envS[k]]))
    /\ colU' = colU + 1
    /\ UNCHANGED <<width, height, linePixels, threshold, boundaries, g, rowY, envQ, envS, envT, sdfPc>>
    /\ UNCHANGED <<fillVars, appVars>>

\* sdf.ts lines 108 and 145: the scan is complete, next row or return
EndRow ==
    /\ sdfPc = "scan"
    /\ colU >= width
    /\ rowY' = rowY + 1
    /\ sdfPc' = IF rowY + 1 < height THEN "row" ELSE "done"
    /\ UNCHANGED <<width, height, linePixels, threshold, boundaries, g, dt, colU, envQ, envS, envT, scanK>>
    /\ UNCHANGED <<fillVars, appVars>>

NextSDF ==
    \/ ExtractBoundaries
    \/ ProcessColumns
    \/ BeginRow
    \/ EnvelopeStep
    \/ BeginScan
    \/ ScanStep
    \/ EndRow

SpecSDF == InitSDF /\ [][NextSDF]_vars

----------------------------------------------------------------------------
(* sdf.ts: the readers of a distance field.                                *)

\* the integer square root of n >= 0
ISqrt(n) == CHOOSE k \in 0 .. n : k * k <= n /\ n < (k + 1) * (k + 1)

\* Math.sqrt: the root of a perfect square is that integer, any other root
\* is kept as the surd of its radicand
Sqrt(a) ==
    IF a.c = 0 /\ a.d = 1 /\ a.n >= 0 /\ ISqrt(a.n) * ISqrt(a.n) = a.n
    THEN Fin(ISqrt(a.n))
    ELSE [surd |-> a]

IsSurd(r) == "surd" \in DOMAIN r

\* r * r
Square(r) == IF IsSurd(r) THEN r.surd ELSE Mul(r, r)

\* r > 0
Positive(r) == IF IsSurd(r) THEN r.surd.n > 0 ELSE r.n > 0

\* r / m for m > 0
Quotient(r, m) == IF r = Fin(0) THEN Fin(0) ELSE [num |-> r, den |-> m]

\* the field calculateDistanceField returns (sdf.ts line 47)
DistanceField == [data |-> dt, width |-> width, height |-> height]

\* getMaxDistance that takes the sentinel for a distance
getMaxDistance_sentinelCounted(field) ==
    LET n == BufLen(field.data)
        max[i \in 0 .. n] ==
            IF i = 0 THEN Fin(0)
            ELSE IF Less(max[i - 1], field.data[i - 1])
                 THEN field.data[i - 1]
                 ELSE max[i - 1]
    IN  Sqrt(max[n])

\* lines 196-204
getMaxDistance(field) ==
    LET n == BufLen(field.data)
        max[i \in 0 .. n] ==
            IF i = 0 THEN Fin(0)
            ELSE IF Less(max[i - 1], field.data[i - 1]) /\ Less(field.data[i - 1], INF)
                 THEN field.data[i - 1]
                 ELSE max[i - 1]
    IN  Sqrt(max[n])

\* normalizeDistanceField that divides the squared distances
normalizeDistanceField_squared(field) ==
    LET maxDist == getMaxDistance(field)
        normalized0 == ZeroNums(BufLen(field.data))
    IN  [data   |-> IF Positive(maxDist)
                    THEN [i \in DOMAIN normalized0 |->
                            Quotient(field.data[i], maxDist)]
                    ELSE normalized0,
         width  |-> field.width,
         height |-> field.height]

\* lines 209-220
normalizeDistanceField(field) ==
    LET maxDist == getMaxDistance(field)
        normalized0 == ZeroNums(BufLen(field.data))
    IN  [data   |-> IF Positive(maxDist)
                    THEN [i \in DOMAIN normalized0 |->
                            Quotient(Sqrt(field.data[i]), maxDist)]
                    ELSE normalized0,
         width  |-> field.width,
         height |-> field.height]

\* getDistance without the bounds test: an index outside the array reads
\* undefined, whose root is NaN
getDistance_unguarded(field, x, y) ==
    IF (y * field.width + x) \in DOMAIN field.data
    THEN Sqrt(field.data[y * field.width + x])
    ELSE [nan |-> TRUE]

\* lines 176-181
getDistance(field, x, y) ==
    IF x < 0 \/ x >= field.width \/ y < 0 \/ y >= field.height
    THEN Fin(0)
    ELSE Sqrt(field.data[y * field.width + x])

\* lines 186-191
getDistanceSquared(field, x, y) ==
    IF x < 0 \/ x >= field.width \/ y < 0 \/ y >= field.height
    THEN Fin(0)
    ELSE field.data[y * field.width + x]

\* a caller normalises the field calculateDistanceField returned
NormalizeDistanceField ==
    /\ sdfPc = "done"
    /\ fieldPc = "idle"
    /\ maxDistance' = getMaxDistance(DistanceField)
    /\ normalized' = normalizeDistanceField(DistanceField).data
    /\ fieldPc' = "normalized"
    /\ UNCHANGED <<sdfVars, fillVars, lookup, shadeVars, uiVars,
                   tileVars, genVars, probeVars>>

\* a caller reads the distance at a coordinate inside or around the field;
\* one read per field is followed
GetDistance ==
    /\ sdfPc = "done"
    /\ lookup = NoLookup
    /\ \E x \in -1 .. width, y \in -1 .. height :
          lookup' = [fn |-> "getDistance", x |-> x, y |-> y,
                     result |-> getDistance(DistanceField, x, y)]
    /\ UNCHANGED <<sdfVars, fillVars, maxDistance, normalized, fieldPc,
                   shadeVars, uiVars,
                   tileVars, genVars, probeVars>>

GetDistanceSquared ==
    /\ sdfPc = "done"
    /\ lookup = NoLookup
    /\ \E x \in -1 .. width, y \in -1 .. height :
          lookup' = [fn |-> "getDistanceSquared", x |-> x, y |-> y,
                     result |-> getDistanceSquared(DistanceField, x, y)]
    /\ UNCHANGED <<sdfVars, fillVars, maxDistance, normalized, fieldPc,
                   shadeVars, uiVars,
                   tileVars, genVars, probeVars>>

NextField ==
    \/ NextSDF
    \/ NormalizeDistanceField
    \/ GetDistance
    \/ GetDistanceSquared

\* the largest number of pixels of a field that is read
MaxFieldCells == 6

\* the masks of InitSDF up to MaxFieldCells pixels
InitField ==
    /\ InitSDF
    /\ width * height <= MaxFieldCells

SpecField == InitField /\ [][NextField]_vars

\* fillRegions as a whole: extraction, distance transform, flood fill
NextFillRegions == NextSDF \/ NextFill

SpecFill == InitSDF /\ [][NextFillRegions]_vars

\* the largest number of pixels of a mask whose fill is followed to its end
MaxLiveCells == 4

\* 3x3 masks with a boundary pixel in the centre and at most one more: the
\* region around the centre is reached from two sides
RingMasks ==
    {m \in Masks(3, 3) : m[4] = 1 /\ Cardinality({i \in DOMAIN m : m[i] = 1}) <= 2}

\* the masks of InitSDF up to MaxLiveCells pixels, and the ring masks
InitFillLive ==
    /\ InitSDF
    /\ \/ width * height <= MaxLiveCells
       \/ width = 3 /\ height = 3 /\ linePixels \in {Rasterised(m) : m \in RingMasks}

\* fillRegions is one synchronous call: a step that can be taken is taken
SpecFillLive == InitFillLive /\ [][NextFillRegions]_vars /\ WF_vars(NextFillRegions)

----------------------------------------------------------------------------
(* fillRegions on images with more regions than region ids: checkerboards *)
(* of isolated pixels, each its own region.                                *)

\* the label reserved for boundary pixels
BOUNDARY_ID == 255

\* the largest region id: updateColorsTexture keeps colours 0 .. 254
MAX_REGION_ID == BOUNDARY_ID - 1

\* a checkerboard size with 256 isolated pixels
ManyRegionSizes == {<<32, 16>>}

\* the mask whose pixel (x, y) is boundary exactly when x + y is odd
Checkerboard(w, h) == [i \in Indices(w * h) |-> ((i % w) + (i \div w)) % 2]

InitManyRegions ==
    /\ FillIdle
    /\ FieldIdle
    /\ ShadeIdle
    /\ UiIdle
    /\ TilesIdle
    /\ GuardIdle
    /\ ProbeIdle
    /\ \E size \in ManyRegionSizes :
        /\ width = size[1]
        /\ height = size[2]
        /\ linePixels = Rasterised(Checkerboard(size[1], size[2]))
    /\ threshold = LINE_THRESHOLD
    /\ boundaries = <<>>
    /\ g = <<>>
    /\ dt = <<>>
    /\ RowsIdle
    /\ sdfPc = "extract"

SpecManyRegions == InitManyRegions /\ [][NextFillRegions]_vars

----------------------------------------------------------------------------
(* extractBoundaries on colour samples around the threshold, and on        *)
(* degenerate sizes.                                                       *)

\* RGB samples: black, averages just below, at and above 50, at 51, white
PixelSamples ==
    {<<0, 0, 0>>, <<49, 50, 50>>, <<50, 50, 50>>, <<50, 51, 52>>, <<255, 255, 255>>}

\* the RGBA buffer of n pixels with the given colours, opaque
BufferOf(colours) ==
    [i \in Indices(4 * BufLen(colours)) |->
        IF i % 4 = 3 THEN 255 ELSE colours[i \div 4][(i % 4) + 1]]

InitExtract ==
    /\ FillIdle
    /\ FieldIdle
    /\ ShadeIdle
    /\ UiIdle
    /\ TilesIdle
    /\ GuardIdle
    /\ ProbeIdle
    /\ width \in 0 .. MaxExtractCells
    /\ height \in 0 .. MaxExtractCells
    /\ width * height <= MaxExtractCells
    /\ linePixels \in {BufferOf(cs) : cs \in [Indices(width * height) -> PixelSamples]}
    /\ threshold \in {DEFAULT_THRESHOLD, DEFAULT_THRESHOLD + 1}
    /\ boundaries = <<>>
    /\ g = <<>>
    /\ dt = <<>>
    /\ RowsIdle
    /\ sdfPc = "extract"

SpecExtract == InitExtract /\ [][NextSDF]_vars

----------------------------------------------------------------------------
(* Callers that break the contract: a pixel buffer shorter than            *)
(* 4*width*height handed to extractBoundaries, a mask shorter than         *)
(* width*height handed to calculateDistanceField.                          *)

Prefix(arr, n) == [i \in Indices(n) |-> arr[i]]

InitMalformed ==
    /\ FillIdle
    /\ FieldIdle
    /\ ShadeIdle
    /\ UiIdle
    /\ TilesIdle
    /\ GuardIdle
    /\ ProbeIdle
    /\ width \in 1 .. MaxExtractCells
    /\ height \in 1 .. MaxExtractCells
    /\ width * height <= MaxExtractCells
    /\ threshold = DEFAULT_THRESHOLD
    /\ g = <<>>
    /\ dt = <<>>
    /\ RowsIdle
    /\ \E m \in Masks(width, height) :
        \/ /\ sdfPc = "extract"
           /\ \E n \in 0 .. (4 * width * height - 1) :
                linePixels = Prefix(Rasterised(m), n)
           /\ boundaries = <<>>
        \/ /\ sdfPc = "columns"
           /\ linePixels = Rasterised(m)
           /\ \E n \in 0 .. (width * height - 1) : boundaries = Prefix(m, n)

SpecMalformed == InitMalformed /\ [][NextSDF]_vars

----------------------------------------------------------------------------
(* Colour utilities (sdf.ts lines 274-308).  A component of an HSB colour  *)
(* is a number of tenths; intermediate values are thousandths.             *)

\* Math.round(x * 255) for x = x1000 / 1000
Round255(x1000) == (x1000 * 510 + 1000) \div 2000

\* sdf.ts lines 278-301
hsbToRgb(h, s, b) ==
    LET i   == (h * 6) \div 10
        fn  == (h * 6) % 10
        p   == b * (10 - s) * 10
        q   == b * (100 - fn * s)
        t   == b * (100 - (10 - fn) * s)
        v   == b * 100
        rgb == CASE i % 6 = 0 -> <<v, t, p>>
                 [] i % 6 = 1 -> <<q, v, p>>
                 [] i % 6 = 2 -> <<p, v, t>>
                 [] i % 6 = 3 -> <<p, q, v>>
                 [] i % 6 = 4 -> <<t, p, v>>
                 [] OTHER     -> <<v, p, q>>
    IN  [r |-> Round255(rgb[1]), g |-> Round255(rgb[2]), b |-> Round255(rgb[3])]

\* sdf.ts lines 306-308
hsbObjToRgb(hsb) == hsbToRgb(hsb.h, hsb.s, hsb.b)

----------------------------------------------------------------------------
(* tiledRenderer.ts: the tile manager.                                     *)

Min(a, b) == IF a < b THEN a ELSE b

\* Math.ceil(a / b) for a >= 0 and b > 0
CeilDiv(a, b) == (a + b - 1) \div b

\* calculateTileGrid computing the tile counts with Math.floor
calculateTileGrid_floor(fw, fh, mts) ==
    LET tilesX == fw \div mts
        tilesY == fh \div mts
    IN  [n \in 1 .. tilesX * tilesY |->
            LET tx == (n - 1) % tilesX
                ty == (n - 1) \div tilesX
            IN  [x |-> tx * mts, y |-> ty * mts,
                 width |-> Min(mts, fw - tx * mts),
                 height |-> Min(mts, fh - ty * mts),
                 tileX |-> tx, tileY |-> ty]]

\* calculateTileGrid with the loop over tx outside the loop over ty
calculateTileGrid_columnMajor(fw, fh, mts) ==
    LET tilesX == CeilDiv(fw, mts)
        tilesY == CeilDiv(fh, mts)
    IN  [n \in 1 .. tilesX * tilesY |->
            LET tx == (n - 1) \div tilesY
                ty == (n - 1) % tilesY
            IN  [x |-> tx * mts, y |-> ty * mts,
                 width |-> Min(mts, fw - tx * mts),
                 height |-> Min(mts, fh - ty * mts),
                 tileX |-> tx, tileY |-> ty]]

\* lines 31-53: the list of tiles, in the order the two loops push them
calculateTileGrid(fw, fh, mts) ==
    LET tilesX == CeilDiv(fw, mts)
        tilesY == CeilDiv(fh, mts)
    IN  [n \in 1 .. tilesX * tilesY |->
            LET tx == (n - 1) % tilesX
                ty == (n - 1) \div tilesX
                x  == tx * mts
                y  == ty * mts
            IN  [x |-> x, y |-> y,
                 width |-> Min(mts, fw - x),
                 height |-> Min(mts, fh - y),
                 tileX |-> tx, tileY |-> ty]]

\* lines 109-120
scaleShapesForTile(lines, circles, tile, fw, fh) ==
    [lines |-> lines, circles |-> circles]

\* extractTileRegionData reading the full grid with the tile's row stride
extractTileRegionData_tileStride(fullRegionData, tile, fw, fh) ==
    [ids |-> [localIdx \in Indices(tile.width * tile.height) |->
                LET localX == localIdx % tile.width
                    localY == localIdx \div tile.width
                IN  fullRegionData.ids[(tile.y + localY) * tile.width + (tile.x + localX)]],
     colors |-> fullRegionData.colors]

\* extractTileRegionData reading at the local coordinates
extractTileRegionData_noOffset(fullRegionData, tile, fw, fh) ==
    [ids |-> [localIdx \in Indices(tile.width * tile.height) |->
                fullRegionData.ids[(localIdx \div tile.width) * fw + (localIdx % tile.width)]],
     colors |-> fullRegionData.colors]

\* lines 126-152
extractTileRegionData(fullRegionData, tile, fw, fh) ==
    [ids |-> [localIdx \in Indices(tile.width * tile.height) |->
                LET localX    == localIdx % tile.width
                    localY    == localIdx \div tile.width
                    globalX   == tile.x + localX
                    globalY   == tile.y + localY
                    globalIdx == globalY * fw + globalX
                IN  fullRegionData.ids[globalIdx]],
     colors |-> fullRegionData.colors]

\* a canvas of the given size; every pixel is the value blank
Canvas(w, h, blank) ==
    [width |-> w, height |-> h, pixels |-> [i \in Indices(w * h) |-> blank]]

\* the pixel of a canvas nothing was drawn to
Transparent ==
    [id |-> -1, colour |-> <<0, 0, 0, 0>>, pos |-> <<-1, -1>>, full |-> <<0, 0>>,
     lines |-> <<>>, circles |-> <<>>]

\* drawImage placing every source at the origin
drawImage_atOrigin(dst, src, dx, dy) ==
    [dst EXCEPT !.pixels =
        [i \in DOMAIN dst.pixels |->
            LET sx == i % dst.width
                sy == i \div dst.width
            IN  IF sx \in Indices(src.width) /\ sy \in Indices(src.height)
                THEN src.pixels[sy * src.width + sx]
                ELSE dst.pixels[i]]]

\* line 98: ctx.drawImage(canvas, info.x, info.y) with opaque source pixels
drawImage(dst, src, dx, dy) ==
    [dst EXCEPT !.pixels =
        [i \in DOMAIN dst.pixels |->
            LET sx == (i % dst.width) - dx
                sy == (i \div dst.width) - dy
            IN  IF sx \in Indices(src.width) /\ sy \in Indices(src.height)
                THEN src.pixels[sy * src.width + sx]
                ELSE dst.pixels[i]]]

RECURSIVE drawTiles(_, _, _)
\* lines 97-99: the loop over the tiles from the n-th on
drawTiles(items, n, out) ==
    IF n > Len(items) THEN out
    ELSE drawTiles(items, n + 1,
                   drawImage(out, items[n].canvas, items[n].info.x, items[n].info.y))

\* lines 82-102, with a 2D context available
compositeTiles(items, fw, fh) == drawTiles(items, 1, Canvas(fw, fh, Transparent))

----------------------------------------------------------------------------
(* shaderRenderer.ts: the shader compositor.                               *)

MAX_LINES == 40

MAX_CIRCLES == 10

\* packLinesForShader taking the lines from the second on
packLinesForShader_skipFirst(lines) ==
    LET count == Min(BufLen(lines), MAX_LINES)
    IN  [i \in 1 .. MAX_LINES * 4 |->
            LET n == (i - 1) \div 4 + 1
                c == (i - 1) % 4
            IN  IF n >= count THEN 0
                ELSE CASE c = 0 -> lines[n].start.x
                       [] c = 1 -> lines[n].start.y
                       [] c = 2 -> lines[n].end.x
                       [] OTHER -> lines[n].end.y]

\* lines 42-57: MAX_LINES vec4s, the lines past the count zero
packLinesForShader(lines) ==
    LET count == Min(BufLen(lines), MAX_LINES)
    IN  [i \in 1 .. MAX_LINES * 4 |->
            LET n == (i - 1) \div 4
                c == (i - 1) % 4
            IN  IF n >= count THEN 0
                ELSE CASE c = 0 -> lines[n].start.x
                       [] c = 1 -> lines[n].start.y
                       [] c = 2 -> lines[n].end.x
                       [] OTHER -> lines[n].end.y]

\* lines 63-78: MAX_CIRCLES vec3s, the circles past the count zero
packCirclesForShader(circles) ==
    LET count == Min(BufLen(circles), MAX_CIRCLES)
    IN  [i \in 1 .. MAX_CIRCLES * 3 |->
            LET n == (i - 1) \div 3
                c == (i - 1) % 3
            IN  IF n >= count THEN 0
                ELSE CASE c = 0 -> circles[n].center.x
                       [] c = 1 -> circles[n].center.y
                       [] OTHER -> circles[n].radius]

\* the argument tileConfig left out
NoTileConfig == [given |-> FALSE]

\* the recreate test that compares the width only
regionTexStale_widthOnly(tex, w, h) ==
    IF tex.live THEN tex.width # w ELSE TRUE

\* line 205: there is no region texture of size w x h
regionTexStale(tex, w, h) ==
    IF tex.live THEN tex.width # w \/ tex.height # h ELSE TRUE

\* lines 204-224: the region texture after updateRegionTexture(ids, w, h)
updateRegionTexture(tex, ids, w, h) ==
    LET base == IF regionTexStale(tex, w, h)
                THEN [live |-> TRUE, width |-> w, height |-> h,
                      pixels |-> [i \in Indices(w * h) |-> <<0, 0, 0, 0>>]]
                ELSE tex
    IN  [base EXCEPT !.pixels =
            [i \in DOMAIN base.pixels |->
                IF i < BufLen(ids) THEN <<ids[i], 0, 0, 255>> ELSE base.pixels[i]]]

\* lines 205-209 and 230-233: the calls of remove and createGraphics one
\* render on a renderer of size w x h makes
logTextures(log, rTex, cTex, w, h) ==
    [regionCreated |-> log.regionCreated + (IF regionTexStale(rTex, w, h) THEN 1 ELSE 0),
     regionRemoved |-> log.regionRemoved
                         + (IF rTex.live /\ regionTexStale(rTex, w, h) THEN 1 ELSE 0),
     colorsCreated |-> log.colorsCreated + (IF cTex.live THEN 0 ELSE 1)]

\* updateColorsTexture whose loop runs over every colour handed in
updateColorsTexture_uncapped(tex, colors) ==
    [live |-> TRUE, width |-> 256, height |-> 1,
     pixels |-> [i \in Indices(256) |->
                    IF i < BufLen(colors)
                    THEN LET rgb == hsbObjToRgb(colors[i])
                         IN  <<rgb.r, rgb.g, rgb.b, 255>>
                    ELSE <<0, 0, 0, 0>>]]

\* lines 229-254: the colour texture after updateColorsTexture(colors)
updateColorsTexture(tex, colors) ==
    [live |-> TRUE, width |-> 256, height |-> 1,
     pixels |-> [i \in Indices(256) |->
                    IF i < BufLen(colors) /\ i < 255
                    THEN LET rgb == hsbObjToRgb(colors[i])
                         IN  <<rgb.r, rgb.g, rgb.b, 255>>
                    ELSE <<0, 0, 0, 0>>]]

\* lines 130-178: the uniforms render sets on a renderer of size w x h
renderUniforms(w, h, lines, circles, tileConfig) ==
    [uResolution     |-> <<w, h>>,
     uFullResolution |-> IF tileConfig.given
                         THEN <<tileConfig.fullResolution.width,
                                tileConfig.fullResolution.height>>
                         ELSE <<w, h>>,
     uTileOffset     |-> IF tileConfig.given
                         THEN <<tileConfig.tileOffset.x, tileConfig.tileOffset.y>>
                         ELSE <<0, 0>>,
     uLines          |-> packLinesForShader(lines),
     uLineCount      |-> Min(BufLen(lines), MAX_LINES),
     uCircles        |-> packCirclesForShader(circles),
     uCircleCount    |-> Min(BufLen(circles), MAX_CIRCLES)]

\* The fragment shader that reads uTileOffset is not part of the sources.
\* Its output at the local pixel (x, y) is kept as the tuple of everything it
\* may depend on: the label sampled there, that label's colour, the global
\* pixel position local + uTileOffset, the full resolution and the shapes
\* inside the counts.
fragment(rTex, cTex, u, x, y) ==
    LET id == rTex.pixels[y * rTex.width + x][1]
    IN  [id      |-> id,
         colour  |-> cTex.pixels[id],
         pos     |-> <<x + u.uTileOffset[1], y + u.uTileOffset[2]>>,
         full    |-> u.uFullResolution,
         lines   |-> SubSeq(u.uLines, 1, 4 * u.uLineCount),
         circles |-> SubSeq(u.uCircles, 1, 3 * u.uCircleCount)]

\* line 195: the full-screen quad runs the fragment shader on every pixel
drawQuad(rTex, cTex, u) ==
    LET w == u.uResolution[1]
        h == u.uResolution[2]
    IN  [width |-> w, height |-> h,
         pixels |-> [i \in Indices(w * h) |-> fragment(rTex, cTex, u, i % w, i \div w)]]

----------------------------------------------------------------------------
(* The tiled export: one render without tiling, then calculateTileGrid,    *)
(* one render per tile and compositeTiles.  The sources hold the tile      *)
(* manager and the renderer but not the routine that drives them; the      *)
(* order of the calls is the one section 4.4 of the specification gives.   *)

\* largest width and height of the full resolution, largest tile size
MaxFull == 4

\* every pixel its own region
PixelRegions(w, h) == [i \in Indices(w * h) |-> i % BOUNDARY_ID]

\* boundary columns at odd x, one region per even column
StripeRegions(w, h) ==
    [i \in Indices(w * h) |-> IF (i % w) % 2 = 1 THEN BOUNDARY_ID ELSE (i % w) \div 2]

\* two region colours, HSB in tenths
ColourTable == (0 :> [h |-> 0, s |-> 5, b |-> 8]) @@ (1 :> [h |-> 5, s |-> 6, b |-> 9])

\* no shapes, or one diagonal line and one circle
ShapeSets(w, h) ==
    { [lines |-> <<>>, circles |-> <<>>],
      [lines   |-> (0 :> [start |-> [x |-> 0, y |-> 0], end |-> [x |-> w, y |-> h]]),
       circles |-> (0 :> [center |-> [x |-> 0, y |-> 0], radius |-> h])] }

InitTiles ==
    /\ SdfIdle
    /\ FillIdle
    /\ FieldIdle
    /\ ShadeIdle
    /\ UiIdle
    /\ GuardIdle
    /\ ProbeIdle
    /\ fullWidth \in 1 .. MaxFull
    /\ fullHeight \in 1 .. MaxFull
    /\ maxTileSize \in 1 .. MaxFull
    /\ regionData \in {[ids |-> grid, colors |-> ColourTable] :
                         grid \in {PixelRegions(fullWidth, fullHeight),
                                   StripeRegions(fullWidth, fullHeight)}}
    /\ shapes \in ShapeSets(fullWidth, fullHeight)
    /\ shader = "null"
    /\ regionTex = NoTexture
    /\ colorsTex = NoTexture
    /\ uniforms = "unset"
    /\ singleCanvas = "none"
    /\ tiles = <<>>
    /\ rendered = <<>>
    /\ outputCanvas = "none"
    /\ drawOrder = <<>>
    /\ tileData = <<>>
    /\ texLog = NoTextures
    /\ thrown = NoError
    /\ tilePc = "start"

\* shaderRenderer.ts lines 106-108
ShaderInit ==
    /\ tilePc = "start"
    /\ shader = "null"
    /\ shader' = "compiled"
    /\ UNCHANGED <<fullWidth, fullHeight, maxTileSize, regionData, shapes, regionTex,
                   colorsTex, uniforms, singleCanvas, tiles, rendered, outputCanvas, tilePc>>
    /\ UNCHANGED <<sdfVars, fillVars, fieldVars, shadeVars, uiVars, genVars, probeVars, drawOrder, tileData, texLog, thrown>>

\* render that goes on without a shader
notInitialized_silent(sh) == NoError

\* shaderRenderer.ts lines 126-128 (part_002 lines 44-46): the first statement
\* of render, the error it throws when init() has not run
notInitialized(sh) ==
    IF sh = "null"
    THEN [thrown |-> TRUE,
          message |-> "ShaderRenderer not initialized. Call init() first."]
    ELSE NoError

\* shaderRenderer.ts lines 126-128: render without a shader throws
RenderThrows ==
    /\ tilePc \in {"start", "tiles"}
    /\ notInitialized(shader).thrown
    /\ thrown' = notInitialized(shader)
    /\ tilePc' = "failed"
    /\ UNCHANGED <<fullWidth, fullHeight, maxTileSize, regionData, shapes, rendererVars,
                   singleCanvas, tiles, rendered, outputCanvas>>
    /\ UNCHANGED <<sdfVars, fillVars, fieldVars, shadeVars, uiVars, genVars, probeVars, drawOrder, tileData, texLog>>

\* shaderRenderer.ts lines 118-199 on a renderer of the full resolution,
\* tileConfig left out
RenderUntiled ==
    /\ tilePc = "start"
    /\ ~notInitialized(shader).thrown
    /\ LET rTex == updateRegionTexture(regionTex, regionData.ids, fullWidth, fullHeight)
           cTex == updateColorsTexture(colorsTex, regionData.colors)
           u    == renderUniforms(fullWidth, fullHeight, shapes.lines, shapes.circles,
                                  NoTileConfig)
       IN  /\ regionTex' = rTex
           /\ colorsTex' = cTex
           /\ uniforms' = u
           /\ texLog' = logTextures(texLog, regionTex, colorsTex, fullWidth, fullHeight)
           /\ singleCanvas' = drawQuad(rTex, cTex, u)
    /\ tilePc' = "grid"
    /\ UNCHANGED <<fullWidth, fullHeight, maxTileSize, regionData, shapes, shader,
                   tiles, rendered, outputCanvas>>
    /\ UNCHANGED <<sdfVars, fillVars, fieldVars, shadeVars, uiVars, genVars, probeVars, drawOrder, tileData, thrown>>

\* tiledRenderer.ts lines 31-53
CalculateTileGrid ==
    /\ tilePc = "grid"
    /\ tiles' = calculateTileGrid(fullWidth, fullHeight, maxTileSize)
    /\ tilePc' = "tiles"
    /\ UNCHANGED <<fullWidth, fullHeight, maxTileSize, regionData, shapes, rendererVars,
                   singleCanvas, rendered, outputCanvas>>
    /\ UNCHANGED <<sdfVars, fillVars, fieldVars, shadeVars, uiVars, genVars, probeVars, drawOrder, tileData, texLog, thrown>>

\* the next tile: extractTileRegionData, scaleShapesForTile, then render on a
\* renderer of the tile's size with the tile's offset and the full resolution
RenderTile ==
    /\ tilePc = "tiles"
    /\ ~notInitialized(shader).thrown
    /\ Len(rendered) < Len(tiles)
    /\ LET tile == tiles[Len(rendered) + 1]
           data == extractTileRegionData(regionData, tile, fullWidth, fullHeight)
           sh   == scaleShapesForTile(shapes.lines, shapes.circles, tile,
                                      fullWidth, fullHeight)
           rTex == updateRegionTexture(regionTex, data.ids, tile.width, tile.height)
           cTex == updateColorsTexture(colorsTex, data.colors)
           u    == renderUniforms(tile.width, tile.height, sh.lines, sh.circles,
                      [given |-> TRUE,
                       tileOffset |-> [x |-> tile.x, y |-> tile.y],
                       fullResolution |-> [width |-> fullWidth, height |-> fullHeight]])
       IN  /\ regionTex' = rTex
           /\ colorsTex' = cTex
           /\ uniforms' = u
           /\ texLog' = logTextures(texLog, regionTex, colorsTex, tile.width, tile.height)
           /\ tileData' = Append(tileData, data)
           /\ rendered' = Append(rendered, [canvas |-> drawQuad(rTex, cTex, u), info |-> tile])
    /\ UNCHANGED <<fullWidth, fullHeight, maxTileSize, regionData, shapes, shader,
                   singleCanvas, tiles, outputCanvas, tilePc>>
    /\ UNCHANGED <<sdfVars, fillVars, fieldVars, shadeVars, uiVars, genVars, probeVars, drawOrder, thrown>>

\* a list back to front
Reverse(seq) == [i \in 1 .. Len(seq) |-> seq[Len(seq) + 1 - i]]

\* longest tile list handed over in every order
MaxPermuted == 4

\* the orders of n items: all of them for a short list, front to back and
\* back to front for a long one
Orders(n) ==
    IF n <= MaxPermuted
    THEN {o \in [1 .. n -> 1 .. n] : \A i, j \in 1 .. n : o[i] = o[j] => i = j}
    ELSE {[i \in 1 .. n |-> i], [i \in 1 .. n |-> n + 1 - i]}

\* tiledRenderer.ts lines 82-102, the tiles handed over in some order
CompositeTiles ==
    /\ tilePc = "tiles"
    /\ Len(rendered) = Len(tiles)
    /\ \E order \in Orders(Len(rendered)) :
        /\ drawOrder' = order
        /\ outputCanvas' = compositeTiles([i \in 1 .. Len(rendered) |-> rendered[order[i]]],
                                          fullWidth, fullHeight)
    /\ tilePc' = "done"
    /\ UNCHANGED <<fullWidth, fullHeight, maxTileSize, regionData, shapes, rendererVars,
                   singleCanvas, tiles, rendered>>
    /\ UNCHANGED <<sdfVars, fillVars, fieldVars, shadeVars, uiVars, genVars, probeVars, tileData, texLog, thrown>>

\* tiledRenderer.ts lines 91-94: no 2D context, compositeTiles throws
CompositeThrows ==
    /\ tilePc = "tiles"
    /\ Len(rendered) = Len(tiles)
    /\ tilePc' = "failed"
    /\ UNCHANGED <<fullWidth, fullHeight, maxTileSize, regionData, shapes, rendererVars,
                   singleCanvas, tiles, rendered, outputCanvas>>
    /\ UNCHANGED <<sdfVars, fillVars, fieldVars, shadeVars, uiVars, genVars, probeVars, drawOrder, tileData, texLog, thrown>>

NextTiles ==
    \/ ShaderInit
    \/ RenderThrows
    \/ RenderUntiled
    \/ CalculateTileGrid
    \/ RenderTile
    \/ CompositeTiles
    \/ CompositeThrows

SpecTiles == InitTiles /\ [][NextTiles]_vars

----------------------------------------------------------------------------
(* The export of a one-pixel image with shape lists shorter and longer     *)
(* than the uniform arrays.                                                *)

\* largest number of lines, above MAX_LINES
MaxLineCount == 42

\* largest number of circles, above MAX_CIRCLES
MaxCircleCount == 12

\* n lines and m circles, every coordinate different and none zero
ManyShapes(n, m) ==
    [lines   |-> [i \in Indices(n) |->
                    [start |-> [x |-> 4 * i + 1, y |-> 4 * i + 2],
                     end   |-> [x |-> 4 * i + 3, y |-> 4 * i + 4]]],
     circles |-> [i \in Indices(m) |->
                    [center |-> [x |-> 3 * i + 1, y |-> 3 * i + 2], radius |-> 3 * i + 3]]]

InitShapes ==
    /\ SdfIdle
    /\ FillIdle
    /\ FieldIdle
    /\ ShadeIdle
    /\ UiIdle
    /\ GuardIdle
    /\ ProbeIdle
    /\ fullWidth = 1
    /\ fullHeight = 1
    /\ maxTileSize = 1
    /\ regionData = [ids |-> PixelRegions(1, 1), colors |-> ColourTable]
    /\ shapes \in {ManyShapes(n, m) : n \in 0 .. MaxLineCount, m \in 0 .. MaxCircleCount}
    /\ shader = "null"
    /\ regionTex = NoTexture
    /\ colorsTex = NoTexture
    /\ uniforms = "unset"
    /\ singleCanvas = "none"
    /\ tiles = <<>>
    /\ rendered = <<>>
    /\ outputCanvas = "none"
    /\ drawOrder = <<>>
    /\ tileData = <<>>
    /\ texLog = NoTextures
    /\ thrown = NoError
    /\ tilePc = "start"

SpecShapes == InitShapes /\ [][NextTiles]_vars

----------------------------------------------------------------------------
(* render with colour tables up to and beyond the 256 entries of the       *)
(* colour texture.                                                         *)

\* largest number of region colours, above the size of the texture
MaxColours == 257

\* n region colours, HSB in tenths, neighbours different
ManyColours(n) ==
    [i \in Indices(n) |-> [h |-> i % 10, s |-> 3 + (i % 7), b |-> 5 + (i % 6)]]

InitColours ==
    /\ SdfIdle
    /\ FillIdle
    /\ FieldIdle
    /\ ShadeIdle
    /\ UiIdle
    /\ GuardIdle
    /\ ProbeIdle
    /\ fullWidth = 1
    /\ fullHeight = 1
    /\ maxTileSize = 1
    /\ regionData \in {[ids |-> PixelRegions(1, 1), colors |-> ManyColours(n)] :
                         n \in 0 .. MaxColours}
    /\ shapes = ManyShapes(0, 0)
    /\ shader = "null"
    /\ regionTex = NoTexture
    /\ colorsTex = NoTexture
    /\ uniforms = "unset"
    /\ singleCanvas = "none"
    /\ tiles = <<>>
    /\ rendered = <<>>
    /\ outputCanvas = "none"
    /\ drawOrder = <<>>
    /\ tileData = <<>>
    /\ texLog = NoTextures
    /\ thrown = NoError
    /\ tilePc = "start"

SpecColours == InitColours /\ [][NextTiles]_vars

----------------------------------------------------------------------------
(* tiledRenderer.ts: needsTiledRendering.  What getParameter returns is a  *)
(* number, or null once the context is lost.                               *)

\* the ceiling of line 74
PRACTICAL_LIMIT == 2048

\* the value null
Null == [known |-> FALSE]

Num(n) == [known |-> TRUE, value |-> n]

\* null as a number, as Math.min converts it
ToNumber(v) == IF v.known THEN v.value ELSE 0

\* needsTiledRendering with the hardware limit alone as the limit
needsTiledRendering_hardwareLimit(gl, mts, w, h) ==
    IF gl = "null" THEN TRUE
    ELSE w > ToNumber(mts) \/ h > ToNumber(mts)

\* lines 58-77; gl is the context obtained, mts the value of getParameter
needsTiledRendering(gl, mts, w, h) ==
    IF gl = "null" THEN TRUE
    ELSE LET practicalLimit == Min(ToNumber(mts), PRACTICAL_LIMIT)
         IN  w > practicalLimit \/ h > practicalLimit

\* resolutions around the limits; the resolution picker keeps them within
\* 100 .. 8192
SizeSamples == {100, 1024, 1025, 2048, 2049, 4096, 4097, 8192}

\* hardware limits of small and large devices, and the lost context
TextureSizeSamples == {Null, Num(1024), Num(2048), Num(4096), Num(16384)}

\* line 61: the context of the first name that yields one, or null
ContextSamples == {"webgl", "experimental-webgl", "null"}

InitProbe ==
    /\ SdfIdle
    /\ FillIdle
    /\ FieldIdle
    /\ ShadeIdle
    /\ UiIdle
    /\ TilesIdle
    /\ GuardIdle
    /\ glContext \in ContextSamples
    /\ maxTextureSize \in TextureSizeSamples
    /\ probeWidth \in SizeSamples
    /\ probeHeight \in SizeSamples
    /\ needsTiling = "none"

NeedsTiledRendering ==
    /\ needsTiling = "none"
    /\ glContext # "none"
    /\ needsTiling' = IF needsTiledRendering(glContext, maxTextureSize, probeWidth, probeHeight)
                      THEN "true" ELSE "false"
    /\ UNCHANGED <<glContext, maxTextureSize, probeWidth, probeHeight>>
    /\ UNCHANGED <<sdfVars, fillVars, fieldVars, shadeVars, uiVars, tileVars, genVars>>

SpecProbe == InitProbe /\ [][NeedsTiledRendering]_vars

----------------------------------------------------------------------------
(* The sketches (two versions of the sketch file): generateArt behind its  *)
(* guard.  generateArt is synchronous, so a call is handled only when no   *)
(* other call is running; a call that throws leaves through the event      *)
(* loop.                                                                   *)

\* largest number of calls of generateArt
MaxRequests == 4

\* generateArt not testing the guard
guardBlocks_never(flag) == FALSE

\* line 27 and line 105: if (isGenerating) return
guardBlocks(flag) == flag

\* Math.floor(p.random(8, 20)) and Math.floor(p.random(15, 40)): the extremes
LineCounts(renderer) == IF renderer = "webgl" THEN {8, 19} ELSE {15, 39}

InitSketch ==
    /\ SdfIdle
    /\ FillIdle
    /\ FieldIdle
    /\ ShadeIdle
    /\ UiIdle
    /\ TilesIdle
    /\ ProbeIdle
    /\ isGenerating = FALSE
    /\ genPc = "idle"
    /\ lineBuffer = [gen |-> 0, content |-> "empty", lines |-> 0]
    /\ \E renderer \in {"webgl", "p2d"} :
        canvas = [renderer |-> renderer, gen |-> 0, content |-> "empty"]
    /\ requested = 0
    /\ started = 0
    /\ finished = 0

\* lines 26-27: a call of generateArt that finds the guard set returns
RequestDropped ==
    /\ genPc = "idle"
    /\ requested < MaxRequests
    /\ guardBlocks(isGenerating)
    /\ requested' = requested + 1
    /\ UNCHANGED <<isGenerating, genPc, lineBuffer, canvas, started, finished>>
    /\ UNCHANGED <<sdfVars, fillVars, fieldVars, shadeVars, uiVars, tileVars, probeVars>>

\* lines 26-28: a call of generateArt that passes the guard sets it
RequestStarts ==
    /\ genPc = "idle"
    /\ requested < MaxRequests
    /\ ~guardBlocks(isGenerating)
    /\ requested' = requested + 1
    /\ started' = started + 1
    /\ isGenerating' = TRUE
    /\ genPc' = "clear"
    /\ UNCHANGED <<lineBuffer, canvas, finished>>
    /\ UNCHANGED <<sdfVars, fillVars, fieldVars, shadeVars, uiVars, tileVars, probeVars>>

\* line 31: lineBuffer.background(255)
ClearLineBuffer ==
    /\ genPc = "clear"
    /\ lineBuffer' = [gen |-> started, content |-> "white", lines |-> 0]
    /\ genPc' = "lines"
    /\ UNCHANGED <<isGenerating, canvas, requested, started, finished>>
    /\ UNCHANGED <<sdfVars, fillVars, fieldVars, shadeVars, uiVars, tileVars, probeVars>>

\* lines 34-40: generate the lines and draw them to the buffer
DrawLinesToBuffer ==
    /\ genPc = "lines"
    /\ \E numLines \in LineCounts(canvas.renderer) :
        lineBuffer' = [gen |-> started, content |-> "strokes", lines |-> numLines]
    /\ genPc' = "regions"
    /\ UNCHANGED <<isGenerating, canvas, requested, started, finished>>
    /\ UNCHANGED <<sdfVars, fillVars, fieldVars, shadeVars, uiVars, tileVars, probeVars>>

\* lines 43-49 (detectRegions, background, render) and lines 121-122
\* (background, fillRegions)
RenderRegions ==
    /\ genPc = "regions"
    /\ canvas' = [canvas EXCEPT !.gen = started, !.content = "regions"]
    /\ genPc' = "overlay"
    /\ UNCHANGED <<isGenerating, lineBuffer, requested, started, finished>>
    /\ UNCHANGED <<sdfVars, fillVars, fieldVars, shadeVars, uiVars, tileVars, probeVars>>

\* the same lines with the renderer throwing after the background was drawn:
\* generateArt is left without reaching its last line
RenderRegionsThrows ==
    /\ genPc = "regions"
    /\ canvas' = [canvas EXCEPT !.gen = started, !.content = "white"]
    /\ genPc' = "idle"
    /\ UNCHANGED <<isGenerating, lineBuffer, requested, started, finished>>
    /\ UNCHANGED <<sdfVars, fillVars, fieldVars, shadeVars, uiVars, tileVars, probeVars>>

\* lines 52-54 and 125-127: the coloured lines on top
DrawLines ==
    /\ genPc = "overlay"
    /\ canvas' = [canvas EXCEPT !.content = "art"]
    /\ genPc' = "finish"
    /\ UNCHANGED <<isGenerating, lineBuffer, requested, started, finished>>
    /\ UNCHANGED <<sdfVars, fillVars, fieldVars, shadeVars, uiVars, tileVars, probeVars>>

\* line 56 and line 129: isGenerating = false, return
FinishGeneration ==
    /\ genPc = "finish"
    /\ isGenerating' = FALSE
    /\ finished' = finished + 1
    /\ genPc' = "idle"
    /\ UNCHANGED <<lineBuffer, canvas, requested, started>>
    /\ UNCHANGED <<sdfVars, fillVars, fieldVars, shadeVars, uiVars, tileVars, probeVars>>

NextSketch ==
    \/ RequestDropped
    \/ RequestStarts
    \/ ClearLineBuffer
    \/ DrawLinesToBuffer
    \/ RenderRegions
    \/ RenderRegionsThrows
    \/ DrawLines
    \/ FinishGeneration

SpecSketch == InitSketch /\ [][NextSketch]_vars

----------------------------------------------------------------------------
(* regionFiller.ts: the shading of one pixel (fillRegionWithSDF lines      *)
(* 143-156 and applyEdgeShading).  Saturation, brightness and intensity    *)
(* are multiples of 1/ShadeSteps; the edge factor is num/den with den the  *)
(* squared falloff; shaded saturation and brightness are numerators over   *)
(* ShadeDen(den) = 10 * den * ShadeSteps^2.                                *)

\* the number of steps saturation, brightness and intensity are divided into
ShadeSteps == 4

ShadeDen(den) == 10 * den * ShadeSteps * ShadeSteps

\* the edge factor without the cap at 1
edgeFactor_uncapped(dSq, falloffSq) ==
    [num |-> IF dSq.c = 0 THEN dSq.n ELSE 2 * falloffSq, den |-> falloffSq]

\* line 146: Math.min(1, distSq / falloffSq)
edgeFactor(dSq, falloffSq) ==
    [num |-> IF Less(dSq, Fin(falloffSq)) THEN dSq.n ELSE falloffSq, den |-> falloffSq]

\* line 182: (1 - edgeFactor) * edgeIntensity, as a numerator over
\* den * ShadeSteps
edgeEffect(ef, sh) == (ef.den - ef.num) * sh.edgeIntensity

\* applyEdgeShading without the Math.min(1, ...) of lines 192, 196 and 201
applyEdgeShading_unclamped(base, ef, sh) ==
    LET x    == edgeEffect(ef, sh)
        one  == 10 * ef.den * ShadeSteps
        s0   == base.s * one
        b0   == base.b * one
    IN  [h   |-> base.h,
         s   |-> CASE sh.edgeMode = "darken"  -> base.s * (one + 3 * x)
                   [] sh.edgeMode = "lighten" -> base.s * (one - 3 * x)
                   [] OTHER                   -> s0 + 4 * x * ShadeSteps,
         b   |-> CASE sh.edgeMode = "darken"  -> base.b * (one - 6 * x)
                   [] sh.edgeMode = "lighten" -> b0 + 3 * x * ShadeSteps
                   [] OTHER                   -> b0,
         den |-> ShadeDen(ef.den),
         a   |-> FILL_ALPHA]

\* lines 174-215: the colour p5 makes of the shaded (h, s, b), with alpha 200
applyEdgeShading(base, ef, sh) ==
    LET x    == edgeEffect(ef, sh)
        one  == 10 * ef.den * ShadeSteps
        full == ShadeDen(ef.den)
        s0   == base.s * one
        b0   == base.b * one
        min1(v) == IF v < full THEN v ELSE full
    IN  [h   |-> base.h,
         s   |-> CASE sh.edgeMode = "darken"  -> min1(base.s * (one + 3 * x))
                   [] sh.edgeMode = "lighten" -> base.s * (one - 3 * x)
                   [] OTHER                   -> min1(s0 + 4 * x * ShadeSteps),
         b   |-> CASE sh.edgeMode = "darken"  -> base.b * (one - 6 * x)
                   [] sh.edgeMode = "lighten" -> min1(b0 + 3 * x * ShadeSteps)
                   [] OTHER                   -> b0,
         den |-> full,
         a   |-> FILL_ALPHA]

\* the falloff distances tried: a short one, the default, the sketch's
Falloffs == {2, EDGE_FALLOFF, 100}

\* squared distances around the squared falloff, and the sentinel's square
DistSamples(falloffSq) ==
    {Fin(0), Fin(1), Fin(falloffSq \div 2), Fin(falloffSq - 1), Fin(falloffSq),
     Fin(falloffSq + 1), Mul(INF, INF)}

EdgeModes == {"darken", "lighten", "saturate"}

\* hues in tenths
Hues == {0, 6}

InitShade ==
    /\ SdfIdle
    /\ FillIdle
    /\ FieldIdle
    /\ UiIdle
    /\ TilesIdle
    /\ GuardIdle
    /\ ProbeIdle
    /\ baseColor \in [h : Hues, s : 0 .. ShadeSteps, b : 0 .. ShadeSteps]
    /\ shading \in [edgeIntensity : 0 .. ShadeSteps, edgeFalloff : Falloffs,
                     edgeMode : EdgeModes]
    /\ pixelDistSq \in DistSamples(shading.edgeFalloff * shading.edgeFalloff)
    /\ color = NoColor
    /\ shadePc = "pixel"

\* regionFiller.ts lines 143-156: the colour of one pixel of a span
ShadePixel ==
    /\ shadePc = "pixel"
    /\ LET falloffSq == shading.edgeFalloff * shading.edgeFalloff
       IN  color' = applyEdgeShading(baseColor, edgeFactor(pixelDistSq, falloffSq), shading)
    /\ shadePc' = "written"
    /\ UNCHANGED <<baseColor, shading, pixelDistSq>>
    /\ UNCHANGED <<sdfVars, fillVars, fieldVars, uiVars, tileVars, genVars, probeVars>>

SpecShade == InitShade /\ [][ShadePixel]_vars

----------------------------------------------------------------------------
(* ui.ts: the resolution picker.  A string is a sequence of characters.    *)

\* config.ts: RESOLUTION_PRESETS, indexed from 0
RESOLUTION_PRESETS ==
    [i \in Indices(8) |->
        CASE i = 0 -> [name |-> "4K Ultra HD", width |-> 3840, height |-> 2160]
          [] i = 1 -> [name |-> "2K QHD", width |-> 2560, height |-> 1440]
          [] i = 2 -> [name |-> "Full HD", width |-> 1920, height |-> 1080]
          [] i = 3 -> [name |-> "Phone Portrait", width |-> 1170, height |-> 2532]
          [] i = 4 -> [name |-> "Phone Landscape", width |-> 2532, height |-> 1170]
          [] i = 5 -> [name |-> "Tablet", width |-> 2048, height |-> 2732]
          [] i = 6 -> [name |-> "Square", width |-> 2048, height |-> 2048]
          [] OTHER -> [name |-> "Instagram Story", width |-> 1080, height |-> 1920]]

\* ui.ts lines 34-46: 0 on a desktop, the index of 'Phone Portrait' on a
\* mobile device
getDefaultPresetIndex(isMobile) ==
    IF isMobile
    THEN LET found == {i \in DOMAIN RESOLUTION_PRESETS :
                          RESOLUTION_PRESETS[i].name = "Phone Portrait"}
         IN  IF found # {} THEN CHOOSE i \in found : \A j \in found : i <= j ELSE 0
    ELSE 0

DigitChars == <<"0", "1", "2", "3", "4", "5", "6", "7", "8", "9",
                "a", "b", "c", "d", "e", "f">>

\* the value of a character as a digit, 16 for a character that is none
DigitValue(ch) ==
    IF \E i \in 1 .. 16 : DigitChars[i] = ch
    THEN (CHOOSE i \in 1 .. 16 : DigitChars[i] = ch) - 1
    ELSE 16

RECURSIVE skipSpaces(_)
skipSpaces(str) ==
    IF str # <<>> /\ Head(str) = " " THEN skipSpaces(Tail(str)) ELSE str

\* the leading digits of str in the radix, none if there is none
RECURSIVE leadingDigits(_, _, _)
leadingDigits(str, radix, acc) ==
    IF str = <<>> \/ DigitValue(Head(str)) >= radix
    THEN acc
    ELSE leadingDigits(Tail(str), radix,
                       [nan |-> FALSE,
                        value |-> acc.value * radix + DigitValue(Head(str))])

\* JavaScript's parseInt(str): leading blanks skipped, a sign, a 0x prefix
\* for radix 16, then the digits up to the first character that is none;
\* NaN without a digit
parseInt(str) ==
    LET s1   == skipSpaces(str)
        neg  == s1 # <<>> /\ Head(s1) = "-"
        s2   == IF s1 # <<>> /\ Head(s1) \in {"-", "+"} THEN Tail(s1) ELSE s1
        hex  == Len(s2) >= 2 /\ s2[1] = "0" /\ s2[2] = "x"
        s3   == IF hex THEN Tail(Tail(s2)) ELSE s2
        r    == leadingDigits(s3, IF hex THEN 16 ELSE 10, [nan |-> TRUE, value |-> 0])
    IN  IF r.nan THEN r
        ELSE [nan |-> FALSE, value |-> IF neg THEN -r.value ELSE r.value]

\* JavaScript's String(n) for an integer n
RECURSIVE String(_)
String(n) ==
    IF n < 0 THEN <<"-">> \o String(-n)
    ELSE IF n < 10 THEN <<DigitChars[n + 1]>>
    ELSE Append(String(n \div 10), DigitChars[(n % 10) + 1])

\* x || fallback for what parseInt returned: NaN and 0 are falsy
OrDefault(parsed, fallback) ==
    IF parsed.nan \/ parsed.value = 0 THEN fallback ELSE parsed.value

Max(a, b) == IF a > b THEN a ELSE b

\* the custom dimension taken as typed
customDimension_unclamped(value, fallback) == OrDefault(parseInt(value), fallback)

\* ui.ts lines 509 and 514: Math.max(100, Math.min(8192, parseInt(value) || fallback))
customDimension(value, fallback) ==
    Max(100, Min(8192, OrDefault(parseInt(value), fallback)))

\* what the user leaves in a custom input
InputValues ==
    {<<>>, <<"0">>, <<"9", "9">>, <<"1", "0", "0">>, <<"8", "1", "9", "2">>,
     <<"8", "1", "9", "3">>, <<"-", "5">>, <<"1", "2", ".", "7">>,
     <<" ", "2", "5", "6">>, <<"1", "e", "3">>, <<"0", "x", "f", "f">>,
     <<"a", "b", "c">>}

\* ui.ts lines 15-29 and 52-54: the UI constructed and its modal created, on
\* a desktop or on a mobile device
InitUi ==
    /\ SdfIdle
    /\ FillIdle
    /\ FieldIdle
    /\ ShadeIdle
    /\ TilesIdle
    /\ GuardIdle
    /\ ProbeIdle
    /\ \E isMobile \in BOOLEAN : defaultPresetIndex = getDefaultPresetIndex(isMobile)
    /\ selectedResolution = RESOLUTION_PRESETS[defaultPresetIndex]
    /\ customWidth = 1920
    /\ customHeight = 1080
    /\ isCustom = FALSE
    /\ selectedPresets = {defaultPresetIndex}
    /\ checkboxChecked = FALSE
    /\ widthValue = String(1920)
    /\ heightValue = String(1080)
    /\ generated = NoCall
    /\ modalVisible = FALSE
    /\ lastPreset = -1

uiRest == <<sdfVars, fillVars, fieldVars, shadeVars, tileVars, genVars, probeVars>>

\* ui.ts lines 59-63 (called at the start and by the settings button, 558-561)
ShowModal ==
    /\ ~modalVisible
    /\ modalVisible' = TRUE
    /\ UNCHANGED <<defaultPresetIndex, selectedResolution, customWidth, customHeight,
                   isCustom, selectedPresets, checkboxChecked, widthValue, heightValue,
                   generated, lastPreset>>
    /\ UNCHANGED uiRest

\* ui.ts lines 472-484: a click on the preset button whose data-index is i
ClickPreset ==
    /\ modalVisible
    /\ \E i \in DOMAIN RESOLUTION_PRESETS :
         LET index == OrDefault(parseInt(String(i)), 0)
         IN  /\ selectedPresets' = {i}
             /\ selectedResolution' = RESOLUTION_PRESETS[index]
             /\ lastPreset' = i
    /\ isCustom' = FALSE
    /\ checkboxChecked' = FALSE
    /\ UNCHANGED <<defaultPresetIndex, customWidth, customHeight, widthValue, heightValue,
                   generated, modalVisible>>
    /\ UNCHANGED uiRest

\* ui.ts lines 493-503: a click on the custom toggle
ClickCustomToggle ==
    /\ modalVisible
    /\ isCustom' = ~isCustom
    /\ checkboxChecked' = isCustom'
    /\ selectedPresets' = IF isCustom' THEN {} ELSE selectedPresets
    /\ UNCHANGED <<defaultPresetIndex, selectedResolution, customWidth, customHeight,
                   widthValue, heightValue, generated, modalVisible, lastPreset>>
    /\ UNCHANGED uiRest

\* ui.ts lines 508-511: the width input changed
ChangeWidth ==
    /\ modalVisible
    /\ \E value \in InputValues :
         /\ customWidth' = customDimension(value, 1920)
         /\ widthValue' = String(customWidth')
    /\ UNCHANGED <<defaultPresetIndex, selectedResolution, customHeight, isCustom,
                   selectedPresets, checkboxChecked, heightValue, generated,
                   modalVisible, lastPreset>>
    /\ UNCHANGED uiRest

\* ui.ts lines 513-516: the height input changed
ChangeHeight ==
    /\ modalVisible
    /\ \E value \in InputValues :
         /\ customHeight' = customDimension(value, 1080)
         /\ heightValue' = String(customHeight')
    /\ UNCHANGED <<defaultPresetIndex, selectedResolution, customWidth, isCustom,
                   selectedPresets, checkboxChecked, widthValue, generated,
                   modalVisible, lastPreset>>
    /\ UNCHANGED uiRest

\* ui.ts lines 519-529: a click on the Generate button
ClickGenerate ==
    /\ modalVisible
    /\ generated' = [called |-> TRUE,
                     width  |-> IF isCustom THEN customWidth ELSE selectedResolution.width,
                     height |-> IF isCustom THEN customHeight ELSE selectedResolution.height]
    /\ modalVisible' = FALSE
    /\ UNCHANGED <<defaultPresetIndex, selectedResolution, customWidth, customHeight,
                   isCustom, selectedPresets, checkboxChecked, widthValue, heightValue,
                   lastPreset>>
    /\ UNCHANGED uiRest

NextUi ==
    \/ ShowModal
    \/ ClickPreset
    \/ ClickCustomToggle
    \/ ChangeWidth
    \/ ChangeHeight
    \/ ClickGenerate

SpecUi == InitUi /\ [][NextUi]_vars

----------------------------------------------------------------------------
(* C1, C2: the distance field against the brute-force reference.           *)

BoundaryPixels == {i \in Indices(width * height) : Truthy(boundaries, i)}

SquaredEuclidean(p, b) ==
    LET dx == (p % width) - (b % width)
        dy == (p \div width) - (b \div width)
    IN  dx * dx + dy * dy

MinSquaredDistance(p) ==
    LET ds == {SquaredEuclidean(p, b) : b \in BoundaryPixels}
    IN  CHOOSE m \in ds : \A e \in ds : m <= e

\* C1: with at least one boundary pixel in the mask, the field of
\* calculateDistanceField holds at every pixel the minimum over the boundary
\* pixels of the squared Euclidean distance.
ThmC1_DistanceIsBruteForceMin ==
    (sdfPc = "done" /\ BoundaryPixels # {}) =>
        \A p \in Indices(width * height) : dt[p] = Fin(MinSquaredDistance(p))

WitC1_FarPixelMeasured ==
    /\ sdfPc = "done"
    /\ width >= 3 /\ height >= 3
    /\ Cardinality(BoundaryPixels) = 2
    /\ \E p \in Indices(width * height) : dt[p] = Fin(5)

\* C2: in the field returned by calculateDistanceField every boundary pixel
\* has value exactly 0 and every other pixel a value strictly above 0.
ThmC2_ZeroExactlyAtBoundary ==
    sdfPc = "done" =>
        \A p \in Indices(width * height) :
            IF Truthy(boundaries, p) THEN dt[p] = Fin(0) ELSE Less(Fin(0), dt[p])

WitC2_BoundaryAndInterior ==
    /\ sdfPc = "done"
    /\ \E p, r \in Indices(width * height) :
        /\ Truthy(boundaries, p) /\ dt[p] = Fin(0)
        /\ ~Truthy(boundaries, r) /\ Less(Fin(0), dt[r])

\* C7: extractBoundaries returns a mask of width*height entries in which a
\* pixel is 1 exactly when the average of its R, G, B is strictly below the
\* threshold and 0 otherwise; for width or height 0 the mask is empty.
ThmC7_MaskIsStrictThreshold ==
    sdfPc # "extract" =>
        /\ DOMAIN boundaries = Indices(width * height)
        /\ \A i \in Indices(width * height) :
            boundaries[i] =
                IF linePixels[4 * i] + linePixels[4 * i + 1] + linePixels[4 * i + 2]
                       < 3 * threshold
                THEN 1 ELSE 0
        /\ (width = 0 \/ height = 0) => boundaries = <<>>

WitC7_ThresholdStraddled ==
    /\ sdfPc = "columns"
    /\ threshold = DEFAULT_THRESHOLD
    /\ \E i, j \in Indices(width * height) :
        /\ linePixels[4 * i] + linePixels[4 * i + 1] + linePixels[4 * i + 2] = 149
        /\ boundaries[i] = 1
        /\ linePixels[4 * j] + linePixels[4 * j + 1] + linePixels[4 * j + 2] = 150
        /\ boundaries[j] = 0

\* C8 (as claimed): with a pixel buffer shorter than 4*width*height
\* extractBoundaries does not return a mask, and with a mask shorter than
\* width*height calculateDistanceField does not read it and return a field.
CexC8_MismatchFailsFast ==
    /\ BufLen(linePixels) < 4 * width * height => sdfPc = "extract"
    /\ (sdfPc # "extract" /\ BufLen(boundaries) < width * height) => sdfPc = "columns"

----------------------------------------------------------------------------
(* C3: the partition computed by the flood fill.                           *)

NonBoundary == Indices(width * height) \ BoundaryPixels

\* 4-neighbours of pixel p inside the grid
Neighbours4(p) ==
    {r \in Indices(width * height) :
        \/ (r \div width = p \div width /\ Abs((r % width) - (p % width)) = 1)
        \/ (r % width = p % width /\ Abs((r \div width) - (p \div width)) = 1)}

RECURSIVE ConnectedFrom(_)
\* the non-boundary pixels joined to the set S by 4-connected paths
ConnectedFrom(S) ==
    LET next == S \cup {r \in NonBoundary : \E p \in S : r \in Neighbours4(p)}
    IN  IF next = S THEN S ELSE ConnectedFrom(next)

\* C3: after fillRegions every non-boundary pixel was written exactly once,
\* by one region fill; two non-boundary pixels carry the same region exactly
\* when a 4-connected path of non-boundary pixels joins them; filled pixels
\* and boundary pixels together are the whole grid.
ThmC3_FillPartitionsIntoComponents ==
    fillPc = "done" =>
        /\ \A p \in NonBoundary :
            /\ writeCount[p] = 1
            /\ canvasPixels[p].base \in 0 .. (regionId - 1)
        /\ \A p, r \in NonBoundary :
            (canvasPixels[p].base = canvasPixels[r].base) <=> (r \in ConnectedFrom({p}))
        /\ {p \in Indices(width * height) : writeCount[p] > 0} \cup BoundaryPixels
              = Indices(width * height)

WitC3_TwoRegionsOneWidening ==
    /\ fillPc = "done"
    /\ regionId = 2
    /\ width >= 3 /\ height >= 2
    /\ \E p, r \in NonBoundary :
        /\ p # r /\ canvasPixels[p].base = canvasPixels[r].base
        /\ p % width # r % width /\ p \div width # r \div width

----------------------------------------------------------------------------
(* C6: the region-id space.                                                *)

\* C6 (as claimed): fillRegions does not finish silently after discovering
\* more than 254 regions: the over-limit condition is detected and reported.
CexC6_OverLimitReported ==
    fillPc = "done" => regionId <= MAX_REGION_ID

----------------------------------------------------------------------------
(* C4, C5: the tile grid and the composited image.                         *)

\* the tiles whose rectangle holds the pixel (px, py)
TilesHolding(px, py) ==
    {n \in 1 .. Len(tiles) :
        /\ tiles[n].x <= px /\ px < tiles[n].x + tiles[n].width
        /\ tiles[n].y <= py /\ py < tiles[n].y + tiles[n].height}

\* C4: the tiles of calculateTileGrid cover every pixel of the full
\* resolution exactly once, none reaches outside it, and every tile is at
\* least 1 and at most maxTileSize wide and high.
ThmC4_TilesCoverExactlyOnce ==
    tilePc \in {"tiles", "done"} =>
        /\ \A px \in Indices(fullWidth), py \in Indices(fullHeight) :
            Cardinality(TilesHolding(px, py)) = 1
        /\ \A n \in 1 .. Len(tiles) :
            /\ tiles[n].x >= 0 /\ tiles[n].x + tiles[n].width <= fullWidth
            /\ tiles[n].y >= 0 /\ tiles[n].y + tiles[n].height <= fullHeight
            /\ 1 <= tiles[n].width /\ tiles[n].width <= maxTileSize
            /\ 1 <= tiles[n].height /\ tiles[n].height <= maxTileSize

WitC4_RemainderOnBothAxes ==
    /\ tilePc = "tiles"
    /\ Len(tiles) = 4
    /\ fullWidth % maxTileSize # 0
    /\ fullHeight % maxTileSize # 0
    /\ tiles[4].width < maxTileSize
    /\ tiles[4].height < maxTileSize

----------------------------------------------------------------------------
(* C9: the generation guard.                                               *)

\* C9: a call of generateArt made while isGenerating is set changes neither
\* the line buffer, the canvas nor the guard and starts nothing, then or
\* later: a generation starts only in the step that handles a call, with the
\* guard clear; the buffers are written only by the one generation in
\* progress; the guard is set only at a start and cleared only at a finish.
ThmC9_GuardedRequestDropped ==
    [][/\ (requested' # requested /\ isGenerating) =>
              UNCHANGED <<lineBuffer, canvas, isGenerating, started, genPc>>
       /\ started' # started =>
              /\ requested' = requested + 1
              /\ started' = started + 1
              /\ ~isGenerating /\ isGenerating'
       /\ (lineBuffer' # lineBuffer \/ canvas' # canvas) =>
              /\ isGenerating /\ isGenerating'
              /\ started' = started
              /\ lineBuffer'.gen \in {lineBuffer.gen, started}
              /\ canvas'.gen \in {canvas.gen, started}
       /\ (~isGenerating /\ isGenerating') => started' = started + 1
       /\ (isGenerating /\ ~isGenerating') => finished' = finished + 1
       /\ finished' # finished => (isGenerating /\ ~isGenerating')
      ]_vars

WitC9_RequestDroppedAfterAFinish ==
    /\ isGenerating
    /\ genPc = "idle"
    /\ finished >= 1
    /\ requested > started
    /\ canvas.gen = started

----------------------------------------------------------------------------
(* C10: the tiling decision.                                               *)

\* C10: needsTiledRendering answers true when no context was obtained or the
\* hardware limit is not a number; otherwise it answers true exactly when the
\* width or the height exceeds the smaller of maxTextureSize and 2048; it
\* never answers false for a size above either limit.
ThmC10_TilingDecision ==
    needsTiling # "none" =>
        LET overPractical == probeWidth > PRACTICAL_LIMIT \/ probeHeight > PRACTICAL_LIMIT
            overHardware  == /\ maxTextureSize.known
                             /\ \/ probeWidth > maxTextureSize.value
                                \/ probeHeight > maxTextureSize.value
        IN  /\ (glContext = "null" \/ ~maxTextureSize.known) => needsTiling = "true"
            /\ (glContext # "null" /\ maxTextureSize.known) =>
                  (needsTiling = "true" <=> (overPractical \/ overHardware))
            /\ (overPractical \/ overHardware) => needsTiling = "true"

WitC10_PracticalCeilingDecides ==
    /\ needsTiling = "true"
    /\ glContext = "webgl"
    /\ maxTextureSize = Num(4096)
    /\ probeWidth = 2049
    /\ probeHeight = 1024

----------------------------------------------------------------------------
(* C11: compositing is independent of the tile order.                      *)

\* C11: whatever the order in which compositeTiles is given the tiles, each
\* pixel of the output is the pixel at (global - tile offset) of the one tile
\* whose rectangle holds it.
ThmC11_CompositeFromHoldingTile ==
    tilePc = "done" =>
        /\ outputCanvas.width = fullWidth
        /\ outputCanvas.height = fullHeight
        /\ \A px \in Indices(fullWidth), py \in Indices(fullHeight) :
            \E n \in 1 .. Len(rendered) :
                LET info == rendered[n].info
                IN  /\ TilesHolding(px, py) = {n}
                    /\ outputCanvas.pixels[py * fullWidth + px] =
                         rendered[n].canvas.pixels[(py - info.y) * info.width + (px - info.x)]

WitC11_ShuffledOrder ==
    /\ tilePc = "done"
    /\ Len(rendered) = 4
    /\ drawOrder = <<3, 1, 4, 2>>
    /\ rendered[1].info.width # rendered[2].info.width

----------------------------------------------------------------------------
(* C12: the labels cropped for a tile.                                     *)

\* the label the extracted tiles hold for the pixel (px, py)
Reassembled(px, py) ==
    LET n    == CHOOSE n \in TilesHolding(px, py) : TRUE
        tile == tiles[n]
    IN  tileData[n].ids[(py - tile.y) * tile.width + (px - tile.x)]

\* C12: the RegionData extracted for a tile has tile.width * tile.height ids,
\* the id at local (lx, ly) is the full grid's id at (tile.x + lx, tile.y + ly),
\* the colour table is the full one, the full grid is left as it was, and the
\* tiles put back at their offsets give the full grid.
ThmC12_TileIdsAreTheWindow ==
    /\ tilePc # "idle" =>
          regionData.ids \in {PixelRegions(fullWidth, fullHeight),
                              StripeRegions(fullWidth, fullHeight)}
    /\ \A n \in 1 .. Len(tileData) :
          LET tile == tiles[n]
          IN  /\ DOMAIN tileData[n].ids = Indices(tile.width * tile.height)
              /\ \A lx \in Indices(tile.width), ly \in Indices(tile.height) :
                    tileData[n].ids[ly * tile.width + lx] =
                        regionData.ids[(tile.y + ly) * fullWidth + (tile.x + lx)]
              /\ tileData[n].colors = regionData.colors
    /\ (tilePc = "tiles" /\ Len(tileData) = Len(tiles)) =>
          \A px \in Indices(fullWidth), py \in Indices(fullHeight) :
              Reassembled(px, py) = regionData.ids[py * fullWidth + px]

WitC12_EdgeTileExtracted ==
    /\ tilePc = "tiles"
    /\ Len(tileData) = Len(tiles)
    /\ Len(tiles) = 4
    /\ tiles[4].x > 0 /\ tiles[4].y > 0
    /\ tiles[4].width < tiles[1].width
    /\ \E i, j \in DOMAIN tileData[1].ids : tileData[1].ids[i] # tileData[1].ids[j]

----------------------------------------------------------------------------
(* C13: the number and the order of the tiles.                             *)

\* the least k with k * b >= a
Ceiling(a, b) == CHOOSE k \in 0 .. a : k * b >= a /\ (k = 0 \/ (k - 1) * b < a)

\* C13: calculateTileGrid returns ceil(fullWidth / maxTileSize) *
\* ceil(fullHeight / maxTileSize) tiles, row by row: the tile at list index
\* ty * tilesX + tx has the grid coordinates (tx, ty), the offset
\* (tx, ty) * maxTileSize and the size that is left, at most maxTileSize.
ThmC13_TilesRowMajor ==
    tilePc \in {"tiles", "done"} =>
        LET tilesX == Ceiling(fullWidth, maxTileSize)
            tilesY == Ceiling(fullHeight, maxTileSize)
        IN  /\ Len(tiles) = tilesX * tilesY
            /\ \A tx \in Indices(tilesX), ty \in Indices(tilesY) :
                LET tile == tiles[ty * tilesX + tx + 1]
                IN  /\ tile.tileX = tx
                    /\ tile.tileY = ty
                    /\ tile.x = tx * maxTileSize
                    /\ tile.y = ty * maxTileSize
                    /\ tile.width = IF fullWidth - tile.x < maxTileSize
                                    THEN fullWidth - tile.x ELSE maxTileSize
                    /\ tile.height = IF fullHeight - tile.y < maxTileSize
                                     THEN fullHeight - tile.y ELSE maxTileSize

WitC13_SecondTileIsRightNeighbour ==
    /\ tilePc = "tiles"
    /\ Len(tiles) = 4
    /\ tiles[2].tileX = 1 /\ tiles[2].tileY = 0
    /\ tiles[2].width < maxTileSize
    /\ tiles[3].y = maxTileSize
    /\ fullHeight = 2 * maxTileSize

----------------------------------------------------------------------------
(* C14: the uniform arrays of the shapes.                                  *)

\* the smaller of the number n of shapes and the capacity cap
Capped(n, cap) == IF n < cap THEN n ELSE cap

\* C14: whatever the number of lines, uLines holds 160 numbers: the first
\* min(n, 40) lines in input order as (start.x, start.y, end.x, end.y), then
\* zeros, and uLineCount is min(n, 40); uCircles holds 30 numbers: the first
\* min(m, 10) circles as (center.x, center.y, radius), then zeros, and
\* uCircleCount is min(m, 10).
ThmC14_ShapesPackedAndCapped ==
    tilePc \in {"grid", "tiles", "done"} =>
        LET n == Capped(BufLen(shapes.lines), 40)
            m == Capped(BufLen(shapes.circles), 10)
        IN  /\ DOMAIN uniforms.uLines = 1 .. 160
            /\ uniforms.uLineCount = n
            /\ \A i \in Indices(40) :
                 <<uniforms.uLines[4 * i + 1], uniforms.uLines[4 * i + 2],
                   uniforms.uLines[4 * i + 3], uniforms.uLines[4 * i + 4]>>
                 = IF i < n
                   THEN <<shapes.lines[i].start.x, shapes.lines[i].start.y,
                          shapes.lines[i].end.x, shapes.lines[i].end.y>>
                   ELSE <<0, 0, 0, 0>>
            /\ DOMAIN uniforms.uCircles = 1 .. 30
            /\ uniforms.uCircleCount = m
            /\ \A i \in Indices(10) :
                 <<uniforms.uCircles[3 * i + 1], uniforms.uCircles[3 * i + 2],
                   uniforms.uCircles[3 * i + 3]>>
                 = IF i < m
                   THEN <<shapes.circles[i].center.x, shapes.circles[i].center.y,
                          shapes.circles[i].radius>>
                   ELSE <<0, 0, 0>>

WitC14_MoreShapesThanCapacity ==
    /\ tilePc = "grid"
    /\ BufLen(shapes.lines) = 41
    /\ BufLen(shapes.circles) = 11
    /\ uniforms.uLineCount = 40
    /\ uniforms.uCircleCount = 10
    /\ uniforms.uLines[160] = 160

----------------------------------------------------------------------------
(* C15: for a mask with no boundary pixel every value of the distance      *)
(* field is the infinite sentinel (not below INF), getMaxDistance returns  *)
(* 0 and normalizeDistanceField returns a field that is 0 at every pixel.  *)

NoBoundaryPixel == \A i \in DOMAIN boundaries : boundaries[i] = 0

ThmC15_BoundaryFreeFieldNormalisesToZero ==
    (fieldPc = "normalized" /\ NoBoundaryPixel) =>
        /\ \A i \in DOMAIN dt : ~Less(dt[i], INF)
        /\ maxDistance = Fin(0)
        /\ DOMAIN normalized = DOMAIN dt
        /\ \A i \in DOMAIN normalized : normalized[i] = Fin(0)

WitC15_BoundaryFreeFieldNormalised ==
    /\ fieldPc = "normalized"
    /\ NoBoundaryPixel
    /\ width = 2
    /\ height = 2

----------------------------------------------------------------------------
(* C18: getDistance and getDistanceSquared return 0 for a coordinate with  *)
(* x < 0, x >= width, y < 0 or y >= height; for a coordinate inside the    *)
(* field getDistanceSquared returns data[y*width+x] and the square of      *)
(* getDistance equals it.                                                  *)

OutOfBounds(x, y) == x < 0 \/ x >= width \/ y < 0 \/ y >= height

WitC18_RootOfTwoRead ==
    /\ sdfPc = "done"
    /\ lookup.fn = "getDistance"
    /\ ~OutOfBounds(lookup.x, lookup.y)
    /\ dt[lookup.y * width + lookup.x] = Fin(2)

----------------------------------------------------------------------------
(* C16, C17: the regions fillRegions discovers.                            *)

\* the 4-connected components of the non-boundary pixels
Components == {ConnectedFrom({p}) : p \in NonBoundary}

\* the mask whose boundary pixels are exactly the column x0
VerticalLineAt(x0) ==
    BoundaryPixels = {p \in Indices(width * height) : p % width = x0}

\* C16: the final regionId equals the number of 4-connected components of
\* non-boundary pixels: 0 for an all-boundary mask, 1 for a mask with no
\* boundary pixel, 2 for a mask whose only boundary is one full-height
\* vertical line strictly inside the grid.
ThmC16_RegionCountIsComponentCount ==
    fillPc = "done" =>
        /\ regionId = Cardinality(Components)
        /\ (NonBoundary = {}) => regionId = 0
        /\ (BoundaryPixels = {}) => regionId = 1
        /\ (\E x0 \in 1 .. (width - 2) : VerticalLineAt(x0)) => regionId = 2

WitC16_VerticalLineSplitsInTwo ==
    /\ fillPc = "done"
    /\ width = 3
    /\ height = 3
    /\ VerticalLineAt(1)
    /\ regionId = 2

\* the pixels filled as region i
RegionPixels(i) ==
    {p \in DOMAIN canvasPixels : canvasPixels[p].base = i}

\* the first pixel of region i in row-major order
FirstPixel(i) ==
    CHOOSE p \in RegionPixels(i) : \A r \in RegionPixels(i) : p <= r

\* the return of one fillRegionWithSDF call: the pixels it gave the current
\* id are the whole component of the pixel the scan stopped at, which is the
\* first pixel of that component, and the id moves on by one
OneWholeRegionFilled ==
    (fillPc = "fill" /\ fillPc' = "scan") =>
        /\ RegionPixels(regionId) = ConnectedFrom({scanIdx})
        /\ \A p \in ConnectedFrom({scanIdx}) : scanIdx <= p
        /\ regionId' = regionId + 1

\* the numbering once the scan is over
NumberedInDiscoveryOrder ==
    fillPc = "done" =>
        /\ \A p \in NonBoundary : canvasPixels[p].base \in 0 .. (regionId - 1)
        /\ \A i \in 0 .. (regionId - 1) : RegionPixels(i) # {}
        /\ \A i, j \in 0 .. (regionId - 1) :
              i < j => FirstPixel(i) < FirstPixel(j)

\* C17: regions are numbered consecutively from 0 in the order the row-major
\* scan meets their first pixel: for regions i < j the row-major-smallest
\* pixel of region i precedes that of region j, and each outer-loop fill
\* consumes exactly one whole region.
ThmC17_NumberedInScanOrder ==
    /\ []NumberedInDiscoveryOrder
    /\ [][OneWholeRegionFilled]_vars

WitC17_ThreeRegionsNumbered ==
    /\ fillPc = "done"
    /\ regionId = 3
    /\ Cardinality(RegionPixels(1)) >= 2

----------------------------------------------------------------------------
(* C20: phase 1 of the distance transform.                                 *)

\* the rows at which column x has a boundary pixel
ColumnBoundaryRows(x) == {y \in Indices(height) : Truthy(boundaries, y * width + x)}

\* the least |y - y2| over the boundary pixels (x, y2) of a column that has one
NearestInColumn(x, y) ==
    LET gaps == {Abs(y - y2) : y2 \in ColumnBoundaryRows(x)}
    IN  CHOOSE m \in gaps : \A k \in gaps : m <= k

\* C20: after processColumns, for every pixel (x,y): if column x contains a
\* boundary pixel, g[y*width+x] is the square of the minimum |y - y2| over the
\* boundary pixels (x,y2) of that column; if it contains none, g is the
\* squared infinite sentinel, at least INF^2.
ThmC20_ColumnsHoldVerticalDistance ==
    sdfPc \in {"row", "envelope", "scan", "done"} =>
        /\ DOMAIN g = Indices(width * height)
        /\ \A x \in Indices(width), y \in Indices(height) :
              IF ColumnBoundaryRows(x) # {}
              THEN g[y * width + x] = Fin(NearestInColumn(x, y) * NearestInColumn(x, y))
              ELSE ~Less(g[y * width + x], Mul(INF, INF))

WitC20_BoundaryBelowAndEmptyColumn ==
    /\ sdfPc = "row"
    /\ rowY = 0
    /\ width = 2
    /\ height = 3
    /\ ColumnBoundaryRows(0) = {2}
    /\ ColumnBoundaryRows(1) = {}
    /\ g[0] = Fin(4)

----------------------------------------------------------------------------
(* C19: the textures the shader compositor owns.                           *)

\* the step is one call of render
RenderCall ==
    \/ tilePc = "start" /\ tilePc' = "grid"
    \/ Len(rendered') = Len(rendered) + 1

\* what one call of render on a renderer of the size it reports in
\* uResolution does to the textures
TexturesFollowRenderer ==
    RenderCall =>
        LET w       == uniforms'.uResolution[1]
            h       == uniforms'.uResolution[2]
            needed  == ~regionTex.live \/ regionTex.width # w \/ regionTex.height # h
            created == texLog'.regionCreated - texLog.regionCreated
            removed == texLog'.regionRemoved - texLog.regionRemoved
        IN  /\ created = (IF needed THEN 1 ELSE 0)
            /\ removed = (IF needed /\ regionTex.live THEN 1 ELSE 0)
            /\ regionTex'.live
            /\ regionTex'.width = w
            /\ regionTex'.height = h
            /\ texLog'.colorsCreated - texLog.colorsCreated
                  = (IF colorsTex.live THEN 0 ELSE 1)
            /\ colorsTex'.live
            /\ colorsTex'.width = 256
            /\ colorsTex'.height = 1

\* the textures alive: those created and not removed
AtMostOneRegionTexture ==
    /\ texLog.regionCreated - texLog.regionRemoved = (IF regionTex.live THEN 1 ELSE 0)
    /\ texLog.colorsCreated = (IF colorsTex.live THEN 1 ELSE 0)

\* C19: across a sequence of render calls on renderers of varying sizes the
\* region texture is created or recreated exactly when none exists or its
\* width or height differs from the renderer's; the previous one is removed
\* first, so at most one is live; after each render its size is the
\* renderer's; the 256x1 colour texture is created once and never again.
ThmC19_TexturesRecreatedOnResizeOnly ==
    /\ []AtMostOneRegionTexture
    /\ [][TexturesFollowRenderer]_vars

WitC19_RecreatedThenReused ==
    /\ tilePc = "tiles"
    /\ Len(rendered) = 2
    /\ texLog = [regionCreated |-> 2, regionRemoved |-> 1, colorsCreated |-> 1]
    /\ regionTex.width = 2
    /\ regionTex.height = 2

----------------------------------------------------------------------------
(* C21: termination of the flood fill.                                     *)

AllVisited == \A i \in Indices(width * height) : visited[i] # 0

\* C21: for every mask and every seed pixel the span work-stack loop of
\* fillRegionWithSDF terminates, the stack becoming empty after finitely
\* many pops even though a span may be on it more than once, and fillRegions
\* terminates with every pixel marked visited.
ThmC21_FillTerminates ==
    /\ [](fillPc = "fill" => <>(fillPc = "scan" /\ stack = <<>>))
    /\ <>(fillPc = "done")
    /\ [](fillPc = "done" => AllVisited)

WitC21_SpanStackedTwice ==
    /\ fillPc = "fill"
    /\ \E i, j \in 1 .. Len(stack) : i < j /\ stack[i] = stack[j]

----------------------------------------------------------------------------
(* C22: the index accesses of processRows.                                 *)

\* the envelope of the current row, while it is built and while it is scanned
EnvelopeInBounds ==
    sdfPc \in {"envelope", "scan"} =>
        /\ 0 <= envQ
        /\ envQ <= width - 1
        /\ (sdfPc = "envelope") => envQ < colU
        /\ \A i \in 0 .. envQ : i \in DOMAIN envS /\ envS[i] \in 0 .. (width - 1)
        /\ \A i, j \in 0 .. envQ : i < j => envS[i] < envS[j]
        /\ (envQ + 1) \in DOMAIN envT
        /\ envT[0] = Neg(INF)
        /\ envT[envQ + 1] = INF
        /\ (sdfPc = "scan") => (0 <= scanK /\ scanK <= envQ)

\* one iteration of the envelope loop pushes column u on top of entries of
\* the current row; one iteration of the scan loop moves k up to at most q
\* and writes dt inside the row
EnvelopeStepsInBounds ==
    /\ (sdfPc = "envelope" /\ sdfPc' = "envelope") =>
          /\ envQ' \in 1 .. (envQ + 1)
          /\ envS'[envQ'] = colU
          /\ \A i \in 0 .. (envQ' - 1) : envS'[i] = envS[i] /\ envT'[i] = envT[i]
    /\ (sdfPc = "scan" /\ sdfPc' = "scan") =>
          /\ scanK <= scanK'
          /\ scanK' <= envQ
          /\ \A i \in (scanK + 1) .. scanK' : Less(envT[i], Fin(colU))
          /\ (rowY * width + envS[scanK']) \in DOMAIN g
          /\ (rowY * width + colU) \in DOMAIN dt

\* C22: in processRows, for every row and every mask, columns holding the
\* infinite sentinel included, the index accesses stay in bounds:
\* 0 <= q <= width-1 while the envelope is built, s[0..q] is strictly
\* increasing, and during the scan k never exceeds q, so s[k] is a column
\* pushed for the current row and t[k+1] an entry written for it.
ThmC22_RowIndicesInBounds ==
    /\ []EnvelopeInBounds
    /\ [][EnvelopeStepsInBounds]_vars

WitC22_PoppedBehindSentinelColumn ==
    /\ sdfPc = "scan"
    /\ rowY >= 1
    /\ envQ >= 1
    /\ envQ < width - 1
    /\ scanK = envQ
    /\ \E x \in Indices(width) : g[rowY * width + x].c = 2

----------------------------------------------------------------------------
(* C23: what the flood fill leaves alone.                                  *)

\* the span lies in one row of the grid, between its first and last column
SpanInRow(span) ==
    /\ span.y \in Indices(height)
    /\ 0 <= span.xLeft
    /\ span.xLeft <= span.xRight
    /\ span.xRight <= width - 1

\* C23: fillRegions never writes the output pixel buffer at a boundary
\* pixel: the bytes of each boundary pixel are after fillRegions what they
\* were before; every span on the work stack, so every span popped, lies
\* within a single row and within 0..width-1.
ThmC23_BoundaryPixelsUntouched ==
    fillPc \in {"scan", "fill", "done"} =>
        /\ \A p \in Indices(width * height) :
              boundaries[p] = 1 => (writeCount[p] = 0 /\ canvasPixels[p] = WhitePixel)
        /\ \A k \in 1 .. Len(stack) : SpanInRow(stack[k])

WitC23_FilledAroundBoundary ==
    /\ fillPc = "done"
    /\ regionId = 1
    /\ width = 3
    /\ height = 3
    /\ boundaries[4] = 1
    /\ canvasPixels[4] = WhitePixel
    /\ \A p \in Indices(9) \ {4} : writeCount[p] = 1

----------------------------------------------------------------------------
(* C24, C25: edge shading.                                                 *)

\* the edge factor of the pixel being shaded
PixelEdgeFactor ==
    edgeFactor(pixelDistSq, shading.edgeFalloff * shading.edgeFalloff)

\* C24: during span fill a pixel whose squared distance is at least
\* falloff^2 has edgeFactor = 1 and edgeEffect = 0 and is written with
\* exactly the region's base colour (h,s,b) in all three edge modes; every
\* written pixel has alpha 200.
ThmC24_FarPixelKeepsBaseColour ==
    shadePc = "written" =>
        /\ color.a = 200
        /\ ~Less(pixelDistSq, Fin(shading.edgeFalloff * shading.edgeFalloff)) =>
              /\ PixelEdgeFactor.num = PixelEdgeFactor.den
              /\ edgeEffect(PixelEdgeFactor, shading) = 0
              /\ color.h = baseColor.h
              /\ color.s * ShadeSteps = baseColor.s * color.den
              /\ color.b * ShadeSteps = baseColor.b * color.den

WitC24_BeyondFalloffLightened ==
    /\ shadePc = "written"
    /\ shading.edgeMode = "lighten"
    /\ shading.edgeIntensity = ShadeSteps
    /\ pixelDistSq = Fin(shading.edgeFalloff * shading.edgeFalloff + 1)
    /\ baseColor.s = 2
    /\ baseColor.b = 3

\* C25: for base saturation and brightness in [0,1], intensity in [0,1] and
\* an edge factor in [0,1], applyEdgeShading yields saturation and
\* brightness in [0,1] and never changes hue; darken never raises brightness
\* and never lowers saturation, lighten never lowers brightness and never
\* raises saturation, saturate leaves brightness unchanged and never lowers
\* saturation.
ThmC25_ShadingStaysInRange ==
    shadePc = "written" =>
        LET s0 == baseColor.s * color.den
            b0 == baseColor.b * color.den
            s1 == color.s * ShadeSteps
            b1 == color.b * ShadeSteps
        IN  /\ 0 <= color.s /\ color.s <= color.den
            /\ 0 <= color.b /\ color.b <= color.den
            /\ color.h = baseColor.h
            /\ (shading.edgeMode = "darken") => (b1 <= b0 /\ s1 >= s0)
            /\ (shading.edgeMode = "lighten") => (b1 >= b0 /\ s1 <= s0)
            /\ (shading.edgeMode = "saturate") => (b1 = b0 /\ s1 >= s0)

WitC25_SaturationCappedAtEdge ==
    /\ shadePc = "written"
    /\ shading.edgeMode = "darken"
    /\ shading.edgeIntensity = ShadeSteps
    /\ pixelDistSq = Fin(0)
    /\ baseColor.s = ShadeSteps
    /\ color.s = color.den
    /\ color.b * ShadeSteps < baseColor.b * color.den

----------------------------------------------------------------------------
(* C26: the generation guard after a call has ended.                       *)

\* C26 (as claimed): after any generateArt invocation ends, whether it
\* returns normally or a step inside it throws, isGenerating is false, so
\* the next generation request is honoured rather than dropped.
CexC26_GuardClearedWhenCallEnds ==
    (genPc = "idle") => ~isGenerating

----------------------------------------------------------------------------
(* C27: the colour table texture.                                          *)

\* C27: after updateColorsTexture(colors), for every i < min(colors.length,
\* 255) texture entry i holds the RGB of colors[i] with alpha 255, and every
\* other entry of the 256-entry table, entry 255 (the boundary sentinel) in
\* particular, is all zero: no region colour is stored at the sentinel index.
ThmC27_SentinelEntryStaysEmpty ==
    colorsTex.live =>
        /\ DOMAIN colorsTex.pixels = Indices(256)
        /\ \A i \in Indices(256) :
              IF i < Min(BufLen(regionData.colors), 255)
              THEN LET rgb == hsbObjToRgb(regionData.colors[i])
                   IN  colorsTex.pixels[i] = <<rgb.r, rgb.g, rgb.b, 255>>
              ELSE colorsTex.pixels[i] = <<0, 0, 0, 0>>
        /\ colorsTex.pixels[BOUNDARY_ID] = <<0, 0, 0, 0>>

WitC27_MoreColoursThanEntries ==
    /\ colorsTex.live
    /\ BufLen(regionData.colors) = 257
    /\ colorsTex.pixels[254][4] = 255
    /\ colorsTex.pixels[255] = <<0, 0, 0, 0>>

----------------------------------------------------------------------------
(* C28: render before init.                                                *)

\* a step that calls render on a renderer whose init() has not run
RenderBeforeInit == shader = "null" /\ tilePc' # tilePc

\* C28: render called before init() throws the error 'ShaderRenderer not
\* initialized. Call init() first.' and has no side effect: no texture is
\* created or updated, no uniform is set and nothing is drawn.
ThmC28_RenderBeforeInitThrowsUntouched ==
    [][RenderBeforeInit =>
         /\ tilePc' = "failed"
         /\ thrown' = [thrown |-> TRUE,
                       message |-> "ShaderRenderer not initialized. Call init() first."]
         /\ UNCHANGED <<shader, regionTex, colorsTex, uniforms, texLog>>
         /\ UNCHANGED <<singleCanvas, rendered, tileData, outputCanvas>>]_vars

WitC28_ThrownWithNothingMade ==
    /\ thrown.thrown
    /\ tilePc = "failed"
    /\ shader = "null"
    /\ regionTex = NoTexture
    /\ colorsTex = NoTexture
    /\ texLog = NoTextures
    /\ singleCanvas = "none"

----------------------------------------------------------------------------
(* C29: the normalised field of a mask with a boundary pixel.              *)

\* a normalised value is 1: a quotient of two equal distances
IsOne(v) ==
    /\ "num" \in DOMAIN v
    /\ ~Less(Square(v.num), Square(v.den))
    /\ ~Less(Square(v.den), Square(v.num))

\* a normalised value lies in [0, 1]
InUnitRange(v) ==
    \/ v = Fin(0)
    \/ /\ "num" \in DOMAIN v
       /\ ~Less(Square(v.den), Square(v.num))

\* the pixels whose distance no other pixel's distance exceeds
Farthest == {i \in DOMAIN dt : \A j \in DOMAIN dt : ~Less(dt[i], dt[j])}

\* what C29 says of every mask with a boundary pixel, apart from the value at
\* the pixels of greatest distance
NormalisedRange ==
    /\ DOMAIN normalized = DOMAIN dt
    /\ \A i \in DOMAIN normalized :
          /\ InUnitRange(normalized[i])
          /\ (normalized[i] = Fin(0)) <=> (boundaries[i] = 1)
    /\ \A i \in Farthest : Square(maxDistance) = dt[i]
    /\ \A i \in DOMAIN dt : Less(dt[i], INF)

----------------------------------------------------------------------------
(* C30: the resolution picker.                                             *)

\* the dimensions the picker stands for: the custom ones in custom mode, else
\* those of the preset clicked last, the default preset if none was clicked
PickedDimensions ==
    IF isCustom
    THEN <<customWidth, customHeight>>
    ELSE LET preset == RESOLUTION_PRESETS[IF lastPreset = -1 THEN defaultPresetIndex
                                          ELSE lastPreset]
         IN  <<preset.width, preset.height>>

PickerConsistent ==
    /\ ~(isCustom /\ selectedPresets # {})
    /\ isCustom = checkboxChecked
    /\ customWidth \in 100 .. 8192
    /\ customHeight \in 100 .. 8192
    /\ parseInt(widthValue) = [nan |-> FALSE, value |-> customWidth]
    /\ parseInt(heightValue) = [nan |-> FALSE, value |-> customHeight]

\* C30: after any sequence of preset clicks, custom-toggle clicks and custom
\* input changes, custom mode and a highlighted preset are never both active,
\* customWidth and customHeight stay within [100, 8192], and the Generate
\* button passes (customWidth, customHeight) to onGenerate in custom mode and
\* otherwise the dimensions of the preset clicked last (of the default preset
\* if none was clicked).
ThmC30_PickerPassesWhatIsShown ==
    /\ [](modalVisible \/ generated.called => PickerConsistent)
    /\ [][(modalVisible /\ ~modalVisible') =>
            generated' = [called |-> TRUE,
                          width  |-> PickedDimensions[1],
                          height |-> PickedDimensions[2]]]_vars

WitC30_CustomClampedAfterPreset ==
    /\ generated = [called |-> TRUE, width |-> 8192, height |-> 100]
    /\ isCustom
    /\ lastPreset = 3
    /\ selectedPresets = {}

====
